---------------------------- MODULE Spec2Model ----------------------------
(***************************************************************************)
(* District Council of Grant development-application scraper.              *)
(*                                                                         *)
(* The repository holds the scraper in several generations:                *)
(*   "ts"  src/scraper.ts             (fill-gated lines, intersection grid, *)
(*                                     majority ownership, two-segment      *)
(*                                     application numbers, insert-or-      *)
(*                                     replace store)                       *)
(*   "p0"  src/unnamed/part_000       (as "ts" with the older row           *)
(*                                     extraction, the hundred-aware        *)
(*                                     address formatter and an insert-or-  *)
(*                                     ignore store)                        *)
(*   "js"  src/scraper.js:584-1136    (construct-only lines, point-graph    *)
(*                                     grid, any-overlap ownership,         *)
(*                                     overhang splitting, three-segment    *)
(*                                     application numbers)                 *)
(* The variable "variant" says which generation is running.                *)
(*                                                                         *)
(* Text is a sequence of one-character strings, so that trimming,          *)
(* splitting, pattern tests and edit distances are computed, not assumed.  *)
(* Co-ordinates are integers.                                              *)
(***************************************************************************)
EXTENDS Integers, Sequences, FiniteSets, TLC

---------------------------------------------------------------------------
(* Text primitives (JavaScript String methods and the regular expressions  *)
(* the scraper applies).                                                   *)

Digits == {"0", "1", "2", "3", "4", "5", "6", "7", "8", "9"}

LowerCase == <<"a","b","c","d","e","f","g","h","i","j","k","l","m",
               "n","o","p","q","r","s","t","u","v","w","x","y","z">>

UpperCase == <<"A","B","C","D","E","F","G","H","I","J","K","L","M",
               "N","O","P","Q","R","S","T","U","V","W","X","Y","Z">>

\* \s of a JavaScript regular expression, over the characters text is made of.
IsSpace(c) == c \in {" ", "\t"}

IsDigit(c) == c \in Digits

IsWordChar(c) ==
    \/ IsDigit(c)
    \/ c = "_"
    \/ \E i \in 1..26 : c = LowerCase[i] \/ c = UpperCase[i]

ToUpperChar(c) ==
    IF \E i \in 1..26 : LowerCase[i] = c
    THEN UpperCase[CHOOSE i \in 1..26 : LowerCase[i] = c]
    ELSE c

toUpperCase(s) == [i \in 1..Len(s) |-> ToUpperChar(s[i])]

ToLowerChar(c) ==
    IF \E i \in 1..26 : UpperCase[i] = c
    THEN LowerCase[CHOOSE i \in 1..26 : UpperCase[i] = c]
    ELSE c

toLowerCase(s) == [i \in 1..Len(s) |-> ToLowerChar(s[i])]

RECURSIVE trimStart(_)
trimStart(s) ==
    IF s # <<>> /\ IsSpace(Head(s)) THEN trimStart(Tail(s)) ELSE s

RECURSIVE trimEnd(_)
trimEnd(s) ==
    IF s # <<>> /\ IsSpace(s[Len(s)]) THEN trimEnd(SubSeq(s, 1, Len(s) - 1)) ELSE s

trim(s) == trimEnd(trimStart(s))

\* s.startsWith(p)
startsWith(s, p) == Len(p) <= Len(s) /\ SubSeq(s, 1, Len(p)) = p

\* s.endsWith(p)
endsWith(s, p) == Len(p) <= Len(s) /\ SubSeq(s, Len(s) - Len(p) + 1, Len(s)) = p

\* s.substring(n): the text from the 0-based position n on.
substring(s, n) == SubSeq(s, n + 1, Len(s))

\* s.replace(/\s/g, "")
RemoveWhitespace(s) == SelectSeq(s, LAMBDA c : ~IsSpace(c))

\* s.replace(/\s\s+/g, " "): every run of two or more whitespace characters
\* becomes one space; a single whitespace character is kept as it is.
RECURSIVE CollapseWhitespace(_)
CollapseWhitespace(s) ==
    IF s = <<>> THEN <<>>
    ELSE IF IsSpace(s[1]) /\ Len(s) >= 2 /\ IsSpace(s[2])
         THEN <<" ">> \o CollapseWhitespace(trimStart(s))
         ELSE <<s[1]>> \o CollapseWhitespace(Tail(s))

\* The 1-based position of the first occurrence of p in s at or after from, 0 if none.
IndexOfFrom(s, p, from) ==
    LET hits == {i \in from..(Len(s) - Len(p) + 1) : SubSeq(s, i, i + Len(p) - 1) = p}
    IN IF hits = {} THEN 0 ELSE CHOOSE i \in hits : \A j \in hits : i <= j

\* s.lastIndexOf(c) as a 1-based position, 0 if c does not occur.
lastIndexOf(s, c) ==
    LET hits == {i \in 1..Len(s) : s[i] = c}
    IN IF hits = {} THEN 0 ELSE CHOOSE i \in hits : \A j \in hits : i >= j

\* s.replace(/p/g, r) for a literal p.
RECURSIVE ReplaceAll(_, _, _)
ReplaceAll(s, p, r) ==
    LET i == IndexOfFrom(s, p, 1)
    IN IF i = 0 THEN s
       ELSE SubSeq(s, 1, i - 1) \o r \o ReplaceAll(SubSeq(s, i + Len(p), Len(s)), p, r)

\* s.split(sep) for a literal, non-empty separator: always at least one token.
RECURSIVE split(_, _)
split(s, sep) ==
    LET i == IndexOfFrom(s, sep, 1)
    IN IF i = 0 THEN <<s>>
       ELSE <<SubSeq(s, 1, i - 1)>> \o split(SubSeq(s, i + Len(sep), Len(s)), sep)

\* array.join(sep)
RECURSIVE join(_, _)
join(parts, sep) ==
    IF parts = <<>> THEN <<>>
    ELSE IF Len(parts) = 1 THEN parts[1]
    ELSE parts[1] \o sep \o join(Tail(parts), sep)

---------------------------------------------------------------------------
(* String literals used by the scraper.                                    *)

APPLICATION == <<"A","P","P","L","I","C","A","T","I","O","N">>

PROPERTY_ADDRESS == <<"P","R","O","P","E","R","T","Y"," ","A","D","D","R","E","S","S">>

PROPERTYADDRESS == <<"P","R","O","P","E","R","T","Y","A","D","D","R","E","S","S">>

RECEIPT == <<"R","E","C","E","I","P","T">>

DESCRIPTION == <<"D","E","S","C","R","I","P","T","I","O","N">>

ASSESS == <<"A","S","S","E","S","S">>

DECISION == <<"D","E","C","I","S","I","O","N">>

LOT == <<"L","O","T">>

SECTION_SLASH == <<"S","E","C","T","I","O","N"," ","/">>

SECTIONSLASH == <<"S","E","C","T","I","O","N","/">>

NO_DOT == <<"N","O",".">>

HD_ == <<"H","D"," ">>

HUNDRED_ == <<"H","U","N","D","R","E","D"," ">>

DASH == <<"-">>

NoDescriptionProvided ==
    <<"N","O"," ","D","E","S","C","R","I","P","T","I","O","N"," ",
      "P","R","O","V","I","D","E","D">>

\* What moment's format() returns for an invalid date.
InvalidDate == <<"I","n","v","a","l","i","d"," ","d","a","t","e">>

---------------------------------------------------------------------------
(* Geometry kernel.                                                        *)

Max(a, b) == IF a >= b THEN a ELSE b

Min(a, b) == IF a <= b THEN a ELSE b

Abs(a) == IF a >= 0 THEN a ELSE -a

\* The JavaScript value undefined, for a rectangle that was not found.
undefined == [undefined |-> TRUE]

\* An intersect that takes its left edge from the first rectangle.
IntersectAnchored(rectangle1, rectangle2) ==
    LET x1 == rectangle1.x
        y1 == Max(rectangle1.y, rectangle2.y)
        x2 == Min(rectangle1.x + rectangle1.width, rectangle2.x + rectangle2.width)
        y2 == Min(rectangle1.y + rectangle1.height, rectangle2.y + rectangle2.height)
    IN IF x2 >= x1 /\ y2 >= y1
       THEN [x |-> x1, y |-> y1, width |-> x2 - x1, height |-> y2 - y1]
       ELSE [x |-> 0, y |-> 0, width |-> 0, height |-> 0]

\* An intersect without its test for an empty intersection.
IntersectUnguarded(rectangle1, rectangle2) ==
    [x |-> Max(rectangle1.x, rectangle2.x),
     y |-> Max(rectangle1.y, rectangle2.y),
     width |-> Min(rectangle1.x + rectangle1.width, rectangle2.x + rectangle2.width)
               - Max(rectangle1.x, rectangle2.x),
     height |-> Min(rectangle1.y + rectangle1.height, rectangle2.y + rectangle2.height)
                - Max(rectangle1.y, rectangle2.y)]

intersect(rectangle1, rectangle2) ==
    LET x1 == Max(rectangle1.x, rectangle2.x)
        y1 == Max(rectangle1.y, rectangle2.y)
        x2 == Min(rectangle1.x + rectangle1.width, rectangle2.x + rectangle2.width)
        y2 == Min(rectangle1.y + rectangle1.height, rectangle2.y + rectangle2.height)
    IN IF x2 >= x1 /\ y2 >= y1
       THEN [x |-> x1, y |-> y1, width |-> x2 - x1, height |-> y2 - y1]
       ELSE [x |-> 0, y |-> 0, width |-> 0, height |-> 0]

getArea(rectangle) == rectangle.width * rectangle.height

\* A containment that wants every edge strictly inside.
ContainsStrictly(containerRectangle, containedRectangle) ==
    /\ containerRectangle.x < containedRectangle.x
    /\ containerRectangle.y < containedRectangle.y
    /\ containerRectangle.x + containerRectangle.width
          > containedRectangle.x + containedRectangle.width
    /\ containerRectangle.y + containerRectangle.height
          > containedRectangle.y + containedRectangle.height

contains(containerRectangle, containedRectangle) ==
    /\ containerRectangle.x <= containedRectangle.x
    /\ containerRectangle.y <= containedRectangle.y
    /\ containerRectangle.x + containerRectangle.width
          >= containedRectangle.x + containedRectangle.width
    /\ containerRectangle.y + containerRectangle.height
          >= containedRectangle.y + containedRectangle.height

\* A quotient of the code is kept as the pair <<numerator, denominator>>;
\* ExceedsPercentage(q, n) is the floating-point test q > n (a division by
\* zero gives Infinity, -Infinity or NaN, of which only Infinity exceeds n).
ExceedsPercentage(q, n) ==
    IF q[2] > 0 THEN q[1] > n * q[2]
    ELSE IF q[2] < 0 THEN q[1] < n * q[2]
    ELSE q[1] > 0

getPercentageOfElementInCell(element, cell) ==
    LET elementArea == getArea(element)
        intersectionArea == getArea(intersect(cell, element))
    IN IF elementArea = 0 THEN <<0, 1>> ELSE <<intersectionArea * 100, elementArea>>

getHorizontalOverlapPercentage(rectangle1, rectangle2) ==
    IF rectangle1 = undefined \/ rectangle2 = undefined THEN <<0, 1>>
    ELSE LET startX1 == rectangle1.x
             endX1 == rectangle1.x + rectangle1.width
             startX2 == rectangle2.x
             endX2 == rectangle2.x + rectangle2.width
         IN IF \/ startX1 >= endX2
               \/ endX1 <= startX2
               \/ rectangle1.width = 0
               \/ rectangle2.width = 0
            THEN <<0, 1>>
            ELSE <<(Min(endX1, endX2) - Max(startX1, startX2)) * 100,
                   Max(endX1, endX2) - Min(startX1, startX2)>>

---------------------------------------------------------------------------
(* Array.prototype.sort with one of the code's comparers, as a stable      *)
(* insertion sort (what the runtime does for the short arrays of a page);  *)
(* Compare(comparer, a, b) > 0 means a goes after b.                       *)

\* (a, b) => (p > q) ? 1 : ((p < q) ? -1 : 0)
CompareNumbers(p, q) == IF p > q THEN 1 ELSE IF p < q THEN -1 ELSE 0

Compare(comparer, a, b) ==
    CASE comparer = "verticalLineComparer" -> CompareNumbers(a.x, b.x)
      [] comparer = "horizontalLineComparer" -> CompareNumbers(a.y, b.y)
      [] comparer = "cellComparer" ->
            IF Abs(a.y - b.y) < 2 THEN CompareNumbers(a.x, b.x)
            ELSE IF a.y > b.y THEN 1 ELSE -1
      [] comparer = "elementComparer" ->
            IF Abs(a.y - b.y) < 1 THEN CompareNumbers(a.x, b.x)
            ELSE IF a.y > b.y THEN 1 ELSE -1
      [] comparer = "rowComparer" -> CompareNumbers(a[1].y, b[1].y)
      [] comparer = "rowCellComparer" -> CompareNumbers(a.x, b.x)

\* An array that is left in the order it was filled in.
Unsorted(array, comparer) == array

RECURSIVE InsertSorted(_, _, _)
InsertSorted(sorted, item, comparer) ==
    IF sorted # <<>> /\ Compare(comparer, sorted[Len(sorted)], item) > 0
    THEN Append(InsertSorted(SubSeq(sorted, 1, Len(sorted) - 1), item, comparer),
                sorted[Len(sorted)])
    ELSE Append(sorted, item)

RECURSIVE sort(_, _)
sort(array, comparer) ==
    IF array = <<>> THEN <<>>
    ELSE InsertSorted(sort(SubSeq(array, 1, Len(array) - 1), comparer),
                      array[Len(array)], comparer)

\* array.find(predicate) as the 1-based index of the first match, 0 for undefined.
FindIndex(array, Test(_)) ==
    LET hits == {i \in 1..Len(array) : Test(array[i])}
    IN IF hits = {} THEN 0 ELSE CHOOSE i \in hits : \A j \in hits : i <= j

---------------------------------------------------------------------------
(* Address gazetteers.  readAddressInformation loads them from the data    *)
(* files streetnames.txt, streetsuffixes.txt and suburbnames.txt, which    *)
(* are not part of the source; the tables below are the fabricated         *)
(* gazetteer of the specification's address example, in file order, with   *)
(* a second street that lies in two suburbs and two more hundreds.         *)

SMITH_STREET == <<"S","M","I","T","H"," ","S","T","R","E","E","T">>

GRANT == <<"G","R","A","N","T">>

GRANT_SA == <<"G","R","A","N","T"," ","S","A"," ","5","2","9","1">>

JONES_STREET == <<"J","O","N","E","S"," ","S","T","R","E","E","T">>

MOORAK == <<"M","O","O","R","A","K">>

YAHL == <<"Y","A","H","L">>

YOUNG == <<"Y","O","U","N","G">>

BLANCHE == <<"B","L","A","N","C","H","E">>

MOORAK_SA == <<"M","O","O","R","A","K"," ","S","A"," ","5","2","9","1">>

YAHL_SA == <<"Y","A","H","L"," ","S","A"," ","5","2","9","1">>

StreetNames ==
    << [key |-> SMITH_STREET, value |-> <<GRANT>>],
       [key |-> JONES_STREET, value |-> <<MOORAK, YAHL>>] >>

StreetSuffixes == << [key |-> <<"S","T">>, value |-> <<"S","T","R","E","E","T">>] >>

SuburbNames ==
    << [key |-> GRANT, value |-> GRANT_SA], [key |-> MOORAK, value |-> MOORAK_SA],
       [key |-> YAHL, value |-> YAHL_SA] >>

HundredSuburbNames ==
    << [key |-> GRANT, value |-> <<GRANT>>], [key |-> YOUNG, value |-> <<YAHL>>],
       [key |-> BLANCHE, value |-> <<MOORAK, YAHL>>] >>

\* Object.keys(table)
Keys(table) == [i \in 1..Len(table) |-> table[i].key]

\* Object.values(table)
Values(table) == [i \in 1..Len(table) |-> table[i].value]

\* table[key] !== undefined
Has(table, key) == \E i \in 1..Len(table) : table[i].key = key

\* table[key], for a key the table has
Get(table, key) == table[CHOOSE i \in 1..Len(table) : table[i].key = key].value

---------------------------------------------------------------------------
(* didYouMean(input, matchList, { caseSensitive: false, returnType:        *)
(* FIRST_CLOSEST_MATCH, thresholdType: EDIT_DISTANCE, threshold,           *)
(* trimSpaces: true }) of the didyoumean2 library: the first entry of      *)
(* matchList at the least Levenshtein distance from the input, both        *)
(* lower-cased, trimmed and with runs of spaces collapsed, if that         *)
(* distance is at most the threshold; null otherwise.                      *)

null == <<"null">>

\* One row of the Levenshtein table: "previous" is the row of the prefix
\* before the character c, "current" the part of the new row built so far.
\* (Each step evaluates its row before going on, which keeps the evaluation
\* of long texts shallow.)
RECURSIVE LevenshteinRow(_, _, _, _)
LevenshteinRow(previous, current, c, b) ==
    LET j == Len(current)
        next == Append(current,
                       Min(Min(previous[j + 1] + 1, current[j] + 1),
                           previous[j] + (IF c = b[j] THEN 0 ELSE 1)))
    IN IF j > Len(b) THEN current
       ELSE IF Len(next) > 0 THEN LevenshteinRow(previous, next, c, b)
       ELSE current

RECURSIVE LevenshteinFrom(_, _, _)
LevenshteinFrom(row, a, b) ==
    LET next == LevenshteinRow(row, <<row[1] + 1>>, Head(a), b)
    IN IF a = <<>> THEN row[Len(b) + 1]
       ELSE IF Len(next) > 0 THEN LevenshteinFrom(next, Tail(a), b)
       ELSE 0

leven(a, b) == LevenshteinFrom([j \in 1..(Len(b) + 1) |-> j - 1], a, b)

\* s.replace(/\s+/g, " ")
RECURSIVE CollapseSpaces(_)
CollapseSpaces(s) ==
    IF s = <<>> THEN <<>>
    ELSE IF IsSpace(s[1]) THEN <<" ">> \o CollapseSpaces(trimStart(s))
    ELSE <<s[1]>> \o CollapseSpaces(Tail(s))

Normalize(s) == toLowerCase(CollapseSpaces(trim(s)))

EditDistance(input, candidate) == leven(Normalize(input), Normalize(candidate))

\* The first index at which the table of distances is least.
FirstLeast(distance) ==
    CHOOSE m \in 1..Len(distance) :
        /\ \A k \in 1..Len(distance) : distance[m] <= distance[k]
        /\ \A k \in 1..(m - 1) : distance[k] > distance[m]

\* The index in matchList of the first closest match.
ClosestMatch(input, matchList) ==
    FirstLeast([k \in 1..Len(matchList) |-> EditDistance(input, matchList[k])])

\* The closest match if it is within the threshold, else null.
WithinThreshold(input, closest, threshold) ==
    IF EditDistance(input, closest) <= threshold THEN closest ELSE null

didYouMean(input, matchList, threshold) ==
    IF Len(matchList) = 0 THEN null
    ELSE WithinThreshold(input, matchList[ClosestMatch(input, matchList)], threshold)

---------------------------------------------------------------------------
(* Address formatting of src/scraper.ts.                                   *)

\* array.slice(-n): the last n entries (all of them if there are fewer).
LastN(array, n) == SubSeq(array, Max(1, Len(array) - n + 1), Len(array))

\* What is left of the array after array.splice(-n, n).
DropLastN(array, n) == SubSeq(array, 1, Max(0, Len(array) - n))

SPACE == <<" ">>

COMMA == <<",">>

COMMA_SPACE == <<",", " ">>

\* address.replace(/ TCE NTH/g, " TERRACE NORTH") and the three like it
ExpandTerraces(address) ==
    ReplaceAll(ReplaceAll(ReplaceAll(ReplaceAll(address,
        <<" ","T","C","E"," ","N","T","H">>,
        <<" ","T","E","R","R","A","C","E"," ","N","O","R","T","H">>),
        <<" ","T","C","E"," ","S","T","H">>,
        <<" ","T","E","R","R","A","C","E"," ","S","O","U","T","H">>),
        <<" ","T","C","E"," ","E","A","S","T">>,
        <<" ","T","E","R","R","A","C","E"," ","E","A","S","T">>),
        <<" ","T","C","E"," ","W","E","S","T">>,
        <<" ","T","E","R","R","A","C","E"," ","W","E","S","T">>)

\* The index a loop counting down finds first: the greatest hit, 0 if none.
FirstCountingDown(hits) ==
    IF hits = {} THEN 0 ELSE CHOOSE i \in hits : \A j \in hits : i >= j

\* The first index, counting down from "from" to 2, whose trailing tokens
\* are an exact street name; 0 if none.
ExactStreetIndex(tokens, from) ==
    FirstCountingDown({index \in 2..from :
                          Has(StreetNames, join(LastN(tokens, index), SPACE))})

\* The fuzzy match of the last n tokens against the street names.
FuzzyStreet(tokens, n) ==
    didYouMean(join(LastN(tokens, n), SPACE), Keys(StreetNames), 7 - n)

\* The first index, counting down from 6 to 2, whose trailing tokens are
\* close to a street name; 0 if none.
FuzzyStreetIndex(tokens) ==
    FirstCountingDown({n \in 2..6 : FuzzyStreet(tokens, n) # null})

\* tokens after "let token = tokens.pop(); tokens.push(suffix or token)"
ExpandSuffix(tokens) ==
    Append(SubSeq(tokens, 1, Len(tokens) - 1),
           IF Has(StreetSuffixes, tokens[Len(tokens)])
           THEN Get(StreetSuffixes, tokens[Len(tokens)])
           ELSE tokens[Len(tokens)])

\* The second loop of formatStreetName, which found a street name close to
\* the last "index" tokens (index = 0: found none, the text is returned).
FuzzyStreetName(text, tokens, index) ==
    IF index # 0
    THEN trim(join(DropLastN(tokens, index), SPACE) \o SPACE \o FuzzyStreet(tokens, index))
    ELSE text

\* formatStreetName once the text is split into tokens.
FormatStreetTokens(text, tokens) ==
    IF ExactStreetIndex(tokens, 6) # 0 THEN join(tokens, SPACE)
    ELSE FuzzyStreetName(text, tokens, FuzzyStreetIndex(tokens))

formatStreetName(text) ==
    FormatStreetTokens(text, ExpandSuffix(split(toUpperCase(trim(text)), SPACE)))

\* formatAddress once the suburb after the last comma is looked up.
FormatWithSuburb(address, streetName, suburbName) ==
    IF suburbName = null THEN address
    ELSE formatStreetName(streetName) \o COMMA_SPACE \o Get(SuburbNames, suburbName)

\* formatAddress once the last comma is found (0: there is none).
FormatAtComma(address, commaIndex) ==
    IF commaIndex = 0 THEN address
    ELSE FormatWithSuburb(address, SubSeq(address, 1, commaIndex - 1),
                          didYouMean(SubSeq(address, commaIndex + 1, Len(address)),
                                     Keys(SuburbNames), 2))

\* formatAddress once the terraces are expanded.
FormatExpanded(address) == FormatAtComma(address, lastIndexOf(address, ","))

formatAddress_ts(address0) == FormatExpanded(ExpandTerraces(address0))

---------------------------------------------------------------------------
(* Address formatting of src/unnamed/part_000 and src/scraper.js.          *)

\* The fuzzy match (one spelling error allowed) of the last n tokens.
FuzzyStreet1(tokens, n) ==
    didYouMean(join(LastN(tokens, n), SPACE), Keys(StreetNames), 1)

FuzzyStreet1Index(tokens) ==
    FirstCountingDown({n \in 2..4 : FuzzyStreet1(tokens, n) # null})

\* StreetSuffixes[token], else the expanded suffix equal to token, else null.
StreetSuffix(token) ==
    IF Has(StreetSuffixes, token) THEN Get(StreetSuffixes, token)
    ELSE IF \E i \in 1..Len(StreetSuffixes) : StreetSuffixes[i].value = token THEN token
    ELSE null

\* What formatStreet returns for a street name matched fuzzily.
MatchedStreet(tokens, index, streetNameMatch) ==
    [streetName |-> trim(join(DropLastN(tokens, index), SPACE) \o SPACE \o streetNameMatch),
     suburbNames |-> Get(StreetNames, streetNameMatch)]

\* The second loop of formatStreet (index = 0: it found nothing).
FuzzyStreetRecord(tokens, index) ==
    IF index # 0 THEN MatchedStreet(tokens, index, FuzzyStreet1(tokens, index))
    ELSE undefined

\* The first loop of formatStreet (exact = 0: it found nothing).
ExactOrFuzzyStreet(tokens, exact) ==
    IF exact # 0
    THEN [streetName |-> join(tokens, SPACE),
          suburbNames |-> Get(StreetNames, join(LastN(tokens, exact), SPACE))]
    ELSE FuzzyStreetRecord(tokens, FuzzyStreet1Index(tokens))

\* formatStreet once the last token is looked up as a street suffix.
FormatSuffixed(split0, streetSuffix) ==
    IF streetSuffix = null THEN undefined
    ELSE ExactOrFuzzyStreet(Append(SubSeq(split0, 1, Len(split0) - 1), streetSuffix),
                            ExactStreetIndex(Append(SubSeq(split0, 1, Len(split0) - 1),
                                                    streetSuffix), 4))

\* formatStreet once the text is split into tokens.
FormatSplit(split0) == FormatSuffixed(split0, StreetSuffix(split0[Len(split0)]))

\* formatStreet for a text that is not undefined.
formatStreet(text) == FormatSplit(split(toUpperCase(trim(text)), SPACE))

\* formatStreet(tokens[tokens.length - streetNameIndex]); the token is
\* undefined when there are fewer tokens than that.
FormatStreetAt(tokens, streetNameIndex) ==
    IF Len(tokens) >= streetNameIndex
    THEN formatStreet(tokens[Len(tokens) - streetNameIndex + 1])
    ELSE undefined

\* The positions from the end, nearest first.
StreetNameIndexesAscending == << 2, 3, 4 >>

\* The positions from the end at which the code looks for the street name,
\* in its order: third to last, second to last, fourth to last.
StreetNameIndexes == << 3, 2, 4 >>

RECURSIVE FindStreetFrom(_, _)

\* One probe: the street, if the token was one, else the next probe.
ProbedStreet(tokens, indexes, formattedStreet) ==
    IF formattedStreet # undefined
    THEN [streetNameIndex |-> Head(indexes), formattedStreet |-> formattedStreet]
    ELSE FindStreetFrom(tokens, Tail(indexes))

FindStreetFrom(tokens, indexes) ==
    IF indexes = <<>> THEN undefined
    ELSE ProbedStreet(tokens, indexes, FormatStreetAt(tokens, Head(indexes)))

\* The street the code finds, with its position from the end; undefined if
\* no token is a street.
FindStreet(tokens) == FindStreetFrom(tokens, StreetNameIndexes)

\* token.trim(), with a leading "HD " taken off
StripHundredPrefix(token) ==
    IF startsWith(trim(token), HD_) THEN trim(substring(trim(token), 3)) ELSE trim(token)

\* HundredSuburbNames[hundredNameMatch] ([] if nothing matched).
SuburbsOfHundred(hundredNameMatch) ==
    IF hundredNameMatch # null THEN Get(HundredSuburbNames, hundredNameMatch)
    ELSE <<>>

\* The suburbs of the hundred closest to the token ([] if none is close).
HundredSuburbsOf(token) ==
    SuburbsOfHundred(didYouMean(token, Keys(HundredSuburbNames), 2))

\* array.indexOf(item) >= 0
Includes(array, item) == \E i \in 1..Len(array) : array[i] = item

\* SuburbNames[suburbName] as join() renders it (undefined joins as "")
SuburbText(suburbName) ==
    IF Has(SuburbNames, suburbName) THEN Get(SuburbNames, suburbName) ELSE <<>>

\* suburbNames = [ suburbNameMatch ] ([] if nothing matched).
MatchedSuburbs(suburbNameMatch) ==
    IF suburbNameMatch # null THEN <<suburbNameMatch>> ELSE <<>>

\* The candidate suburb lists of the last token and the one before it:
\* <<hundredSuburbNames1, hundredSuburbNames2, suburbNames>>.
CandidatesOf(last, other) ==
    << HundredSuburbsOf(StripHundredPrefix(last)),
       IF startsWith(other, HD_) THEN HundredSuburbsOf(trim(substring(other, 3)))
       ELSE <<>>,
       IF startsWith(other, HD_) THEN <<>>
       ELSE MatchedSuburbs(didYouMean(other, Keys(SuburbNames), 2)) >>

TrailingCandidates(tokens) ==
    CandidatesOf(tokens[Len(tokens)], trim(tokens[Len(tokens) - 1]))

\* The suburbs of the street that every candidate list has, the empty
\* lists too.
IntersectAllCandidates(suburbNames, candidates) ==
    SelectSeq(suburbNames, LAMBDA n :
        /\ Includes(candidates[1], n)
        /\ Includes(candidates[2], n)
        /\ Includes(candidates[3], n))

\* The suburbs of the street that every non-empty candidate list has.
IntersectCandidates(suburbNames, candidates) ==
    SelectSeq(suburbNames, LAMBDA n :
        /\ Len(candidates[1]) = 0 \/ Includes(candidates[1], n)
        /\ Len(candidates[2]) = 0 \/ Includes(candidates[2], n)
        /\ Len(candidates[3]) = 0 \/ Includes(candidates[3], n))

\* The suburbs of the street that the hundred has.
IntersectHundred(suburbNames, hundredSuburbNames) ==
    SelectSeq(suburbNames, LAMBDA n : Includes(hundredSuburbNames, n))

\* The first intersecting suburb, else the first suburb of the street.
FirstSuburb(suburbNames, intersectingSuburbNames) ==
    IF Len(intersectingSuburbNames) = 0 THEN suburbNames[1]
    ELSE intersectingSuburbNames[1]

\* The suburb chosen for a street found streetNameIndex tokens from the end.
ChooseSuburb(tokens, streetNameIndex, suburbNames) ==
    FirstSuburb(suburbNames,
        IF streetNameIndex = 2
        THEN IntersectHundred(suburbNames,
                              HundredSuburbsOf(StripHundredPrefix(tokens[Len(tokens)])))
        ELSE IntersectCandidates(suburbNames, TrailingCandidates(tokens)))

\* formatAddress once the street is looked for.
FormatFound(address, tokens, street) ==
    IF street = undefined THEN address
    ELSE join(SubSeq(tokens, 1, Len(tokens) - street.streetNameIndex)
              \o << street.formattedStreet.streetName,
                    SuburbText(ChooseSuburb(tokens, street.streetNameIndex,
                                            street.formattedStreet.suburbNames)) >>,
              COMMA_SPACE)

\* formatAddress once the address is split at its commas.
FormatTokens(address, tokens) == FormatFound(address, tokens, FindStreet(tokens))

\* formatAddress once the terraces are expanded.
FormatExpandedTokens(address) == FormatTokens(address, split(address, COMMA))

formatAddress_p0(address0) == FormatExpandedTokens(ExpandTerraces(address0))

---------------------------------------------------------------------------
(* Application-number patterns and the received date.                      *)

SLASH == <<"/">>

\* /^[0-9]+\/[0-9]+$/.test(text): the whole text is two groups of digits
\* around one slash. This is the two-segment pattern with anchors, which the
\* sources do not have.
TestTwoSegmentsAnchored(text) ==
    \E i \in 2..(Len(text) - 1) :
        /\ text[i] = "/"
        /\ \A k \in 1..Len(text) : k # i => IsDigit(text[k])

\* /[0-9]+\/[0-9]+/.test(text): a digit, a slash and a digit somewhere.
TestTwoSegments(text) ==
    \E i \in 1..Len(text) :
        /\ i + 2 <= Len(text)
        /\ IsDigit(text[i]) /\ text[i + 1] = "/" /\ IsDigit(text[i + 2])

\* /[0-9]+\/[0-9]+\/[0-9]/.test(text)
TestThreeSegments(text) ==
    \E i \in 1..Len(text) : \E j \in 1..Len(text) :
        /\ i + 2 < j /\ j + 1 <= Len(text)
        /\ IsDigit(text[i]) /\ text[i + 1] = "/"
        /\ \A k \in (i + 2)..(j - 1) : IsDigit(text[k])
        /\ text[j] = "/" /\ IsDigit(text[j + 1])

\* The pattern of each layout generation.
TestApplicationNumber(layout, text) ==
    IF layout = "js" THEN TestThreeSegments(text) ELSE TestTwoSegments(text)

DigitChars == <<"0", "1", "2", "3", "4", "5", "6", "7", "8", "9">>

DigitValue(c) == CHOOSE n \in 0..9 : DigitChars[n + 1] = c

\* The number written by a run of digits.
RECURSIVE ParseDigits(_)
ParseDigits(text) ==
    IF text = <<>> THEN 0
    ELSE 10 * ParseDigits(SubSeq(text, 1, Len(text) - 1)) + DigitValue(text[Len(text)])

AllDigits(text) == \A i \in 1..Len(text) : IsDigit(text[i])

\* The number as decimal digits, padded with zeros to the given width.
RECURSIVE PadDigits(_, _)
PadDigits(n, width) ==
    IF width = 0 /\ n = 0 THEN <<>>
    ELSE Append(PadDigits(n \div 10, Max(width - 1, 0)), DigitChars[(n % 10) + 1])

isLeapYear(year) == (year % 4 = 0 /\ year % 100 # 0) \/ year % 400 = 0

daysInMonth(year, month) ==
    IF month = 2 THEN (IF isLeapYear(year) THEN 29 ELSE 28)
    ELSE IF month \in {4, 6, 9, 11} THEN 30 ELSE 31

\* moment.invalid()
InvalidMoment == [valid |-> FALSE, year |-> 0, month |-> 0, day |-> 0]

\* moment(text, "D/MM/YYYY", true): one or two digits, two digits, four
\* digits, nothing else, and a day that exists in the calendar.
moment(text) ==
    LET parts == split(text, SLASH)
        m == [valid |-> TRUE, year |-> ParseDigits(parts[3]),
              month |-> ParseDigits(parts[2]), day |-> ParseDigits(parts[1])]
    IN IF /\ Len(parts) = 3
          /\ Len(parts[1]) \in {1, 2} /\ Len(parts[2]) = 2 /\ Len(parts[3]) = 4
          /\ AllDigits(parts[1]) /\ AllDigits(parts[2]) /\ AllDigits(parts[3])
          /\ m.month \in 1..12
          /\ m.day \in 1..daysInMonth(m.year, m.month)
       THEN m ELSE InvalidMoment

\* receivedDate.format("YYYY-MM-DD")
format(m) ==
    IF m.valid
    THEN PadDigits(m.year, 4) \o DASH \o PadDigits(m.month, 2) \o DASH \o PadDigits(m.day, 2)
    ELSE InvalidDate

\* The date_received column.  src/scraper.ts calls receivedDate.isValid();
\* the older sources test the function object receivedDate.isValid, which
\* is always truthy.
FormatReceivedDate(layout, m) ==
    IF layout = "ts" THEN (IF m.valid THEN format(m) ELSE <<>>)
    ELSE format(m)

\* A text that reads as an ISO date YYYY-MM-DD.
IsIsoDate(text) ==
    /\ Len(text) = 10
    /\ text[5] = "-" /\ text[8] = "-"
    /\ \A i \in {1, 2, 3, 4, 6, 7, 9, 10} : IsDigit(text[i])

---------------------------------------------------------------------------
(* parseCells: the grid of a page from its drawing operators.              *)
(* A page is [operators, items, viewport]; an operator is [fn, args]; the  *)
(* args of a constructPath are <<sub-operators, co-ordinates>>.            *)

IdentityTransform == <<1, 0, 0, 1, 0, 0>>

\* What transformStack.pop() gives on an empty stack.
UndefinedTransform == <<>>

\* pdfjs.Util.transform(m1, m2)
UtilTransform(m1, m2) ==
    << m1[1] * m2[1] + m1[3] * m2[2],
       m1[2] * m2[1] + m1[4] * m2[2],
       m1[1] * m2[3] + m1[3] * m2[4],
       m1[2] * m2[3] + m1[4] * m2[4],
       m1[1] * m2[5] + m1[3] * m2[6] + m1[5],
       m1[2] * m2[5] + m1[4] * m2[6] + m1[6] >>

\* pdfjs.Util.applyTransform(p, m)
applyTransform(p, m) ==
    << p[1] * m[1] + p[2] * m[3] + m[5], p[1] * m[2] + p[2] * m[4] + m[6] >>

\* The rectangle sub-operation of a constructPath, in page space.
TransformedRectangle(coords, argumentIndex, transform) ==
    LET x1 == coords[argumentIndex + 1]
        y1 == coords[argumentIndex + 2]
        width == coords[argumentIndex + 3]
        height == coords[argumentIndex + 4]
        p1 == applyTransform(<<x1, y1>>, transform)
        p2 == applyTransform(<<x1 + width, y1 + height>>, transform)
    IN [x |-> p1[1], y |-> p1[2], width |-> p2[1] - p1[1], height |-> p2[2] - p1[2]]

\* The inner loop over the sub-operations of one constructPath; the state is
\* [previousRectangle, argumentIndex, failed] (failed: a TypeError, raised
\* when the current transform is undefined).
RECURSIVE ConstructPath(_, _, _, _, _)
ConstructPath(ops, coords, operationIndex, transform, st) ==
    LET op == ops[operationIndex]
        next ==
            IF op \in {"moveTo", "lineTo"}
            THEN [st EXCEPT !.argumentIndex = @ + 2]
            ELSE IF op = "rectangle"
            THEN IF transform = UndefinedTransform
                 THEN [st EXCEPT !.failed = TRUE]
                 ELSE [st EXCEPT !.argumentIndex = @ + 4,
                          !.previousRectangle =
                              TransformedRectangle(coords, st.argumentIndex, transform)]
            ELSE st
    IN IF operationIndex > Len(ops) \/ st.failed THEN st
       ELSE IF next.argumentIndex >= 0
            THEN ConstructPath(ops, coords, operationIndex + 1, transform, next)
       ELSE st

\* The operators at which a pending rectangle becomes a line.
FillOperators(layout) == IF layout = "ts" THEN {"fill", "eoFill"} ELSE {"fill"}

\* An operator loop whose save leaves the transform stack alone.
WalkStepWithoutSave(layout, operator, st) ==
    IF operator.fn = "restore"
    THEN IF st.transformStack = <<>>
         THEN [st EXCEPT !.transform = UndefinedTransform]
         ELSE [st EXCEPT !.transform = st.transformStack[Len(st.transformStack)],
                  !.transformStack = SubSeq(@, 1, Len(@) - 1)]
    ELSE IF operator.fn = "save"
    THEN st
    ELSE IF operator.fn = "transform"
    THEN IF st.transform = UndefinedTransform
         THEN [st EXCEPT !.failed = TRUE]
         ELSE [st EXCEPT !.transform = UtilTransform(@, operator.args)]
    ELSE IF operator.fn = "constructPath"
    THEN LET path == ConstructPath(operator.args[1], operator.args[2], 1, st.transform,
                        [previousRectangle |-> st.previousRectangle,
                         argumentIndex |-> 0, failed |-> FALSE])
         IN [st EXCEPT !.previousRectangle = path.previousRectangle,
                !.failed = path.failed]
    ELSE IF operator.fn \in FillOperators(layout) /\ st.previousRectangle # undefined
    THEN [st EXCEPT !.lines = Append(@, st.previousRectangle),
             !.previousRectangle = undefined]
    ELSE st

\* One turn of the operator loop on the state
\* [lines, previousRectangle, transformStack, transform, failed].
WalkStep(layout, operator, st) ==
    IF operator.fn = "restore"
    THEN IF st.transformStack = <<>>
         THEN [st EXCEPT !.transform = UndefinedTransform]
         ELSE [st EXCEPT !.transform = st.transformStack[Len(st.transformStack)],
                  !.transformStack = SubSeq(@, 1, Len(@) - 1)]
    ELSE IF operator.fn = "save"
    THEN [st EXCEPT !.transformStack = Append(@, st.transform)]
    ELSE IF operator.fn = "transform"
    THEN IF st.transform = UndefinedTransform
         THEN [st EXCEPT !.failed = TRUE]
         ELSE [st EXCEPT !.transform = UtilTransform(@, operator.args)]
    ELSE IF operator.fn = "constructPath"
    THEN LET path == ConstructPath(operator.args[1], operator.args[2], 1, st.transform,
                        [previousRectangle |-> st.previousRectangle,
                         argumentIndex |-> 0, failed |-> FALSE])
         IN [st EXCEPT !.previousRectangle = path.previousRectangle,
                !.failed = path.failed]
    ELSE IF operator.fn \in FillOperators(layout) /\ st.previousRectangle # undefined
    THEN [st EXCEPT !.lines = Append(@, st.previousRectangle),
             !.previousRectangle = undefined]
    ELSE st

RECURSIVE WalkOperators(_, _, _, _)
WalkOperators(layout, operators, index, st) ==
    LET next == WalkStep(layout, operators[index], st)
    IN IF index > Len(operators) \/ st.failed THEN st
       ELSE IF next.failed \in BOOLEAN /\ Len(next.lines) >= 0
            THEN WalkOperators(layout, operators, index + 1, next)
       ELSE st

\* The fill-gated line extractor: [lines, ..., failed].
FindLines(layout, operators) ==
    WalkOperators(layout, operators, 1,
        [lines |-> <<>>, previousRectangle |-> undefined,
         transformStack |-> <<IdentityTransform>>, transform |-> IdentityTransform,
         failed |-> FALSE])


\* The two horizontal lines a wide rectangle (typically the header) becomes.
HeaderLines(line) ==
    << [x |-> line.x, y |-> line.y, width |-> line.width, height |-> 1],
       [x |-> line.x, y |-> line.y + line.height, width |-> line.width, height |-> 1] >>

\* The horizontal lines one line contributes, by layout.
HorizontalLinesOf(layout, line) ==
    IF layout = "ts"
    THEN IF line.height <= 2 /\ line.width >= 200 THEN <<line>>
         ELSE IF line.width <= 2 /\ line.height >= 10 THEN <<>>
         ELSE IF line.height >= 5 /\ line.width >= 200 THEN HeaderLines(line)
         ELSE <<>>
    ELSE IF line.width < 200 /\ line.height < 200 THEN <<>>
         ELSE IF \/ line.width > 10 /\ line.height > 200
                 \/ line.height > 10 /\ line.width > 200
              THEN HeaderLines(line)
         ELSE IF line.height <= 2 THEN <<line>>
         ELSE <<>>

\* The vertical lines one line contributes, by layout.
VerticalLinesOf(layout, line) ==
    IF layout = "ts"
    THEN IF line.height <= 2 /\ line.width >= 200 THEN <<>>
         ELSE IF line.width <= 2 /\ line.height >= 10 THEN <<line>>
         ELSE <<>>
    ELSE IF line.width < 200 /\ line.height < 200 THEN <<>>
         ELSE IF \/ line.width > 10 /\ line.height > 200
                 \/ line.height > 10 /\ line.width > 200
              THEN <<>>
         ELSE IF line.height <= 2 THEN <<>>
         ELSE <<line>>

RECURSIVE HorizontalLines(_, _)
HorizontalLines(layout, lines) ==
    IF lines = <<>> THEN <<>>
    ELSE HorizontalLinesOf(layout, Head(lines)) \o HorizontalLines(layout, Tail(lines))

RECURSIVE VerticalLines(_, _)
VerticalLines(layout, lines) ==
    IF lines = <<>> THEN <<>>
    ELSE VerticalLinesOf(layout, Head(lines)) \o VerticalLines(layout, Tail(lines))

\* The cells between consecutive sorted lines, row by row.
GridCells(horizontalLines, verticalLines) ==
    LET columns == Len(verticalLines) - 1
        count == IF Len(horizontalLines) < 2 \/ columns < 1 THEN 0
                 ELSE (Len(horizontalLines) - 1) * columns
    IN [k \in 1..count |->
          LET horizontalLineIndex == ((k - 1) \div columns) + 1
              verticalLineIndex == ((k - 1) % columns) + 1
              horizontalLine == horizontalLines[horizontalLineIndex]
              nextHorizontalLine == horizontalLines[horizontalLineIndex + 1]
              verticalLine == verticalLines[verticalLineIndex]
              nextVerticalLine == verticalLines[verticalLineIndex + 1]
          IN [elements |-> <<>>, x |-> verticalLine.x, y |-> horizontalLine.y,
              width |-> nextVerticalLine.x - verticalLine.x,
              height |-> nextHorizontalLine.y - horizontalLine.y]]

\* parseCells of src/scraper.ts and src/unnamed/part_000:
\* [cells, failed] (failed: the walk raised a TypeError).
CellsOfLines(layout, found) ==
    [failed |-> found.failed,
     cells |-> IF found.failed THEN <<>>
               ELSE GridCells(sort(HorizontalLines(layout, found.lines),
                                   "horizontalLineComparer"),
                              sort(VerticalLines(layout, found.lines),
                                   "verticalLineComparer"))]

parseCells_grid(layout, page) == CellsOfLines(layout, FindLines(layout, page.operators))

---------------------------------------------------------------------------
(* parseCells of the later layout of src/scraper.js: the point graph.      *)

\* Every constructPath is one line, its arguments read with x and y (and
\* width and height) exchanged.
RECURSIVE ConstructedLines(_)
ConstructedLines(operators) ==
    IF operators = <<>> THEN <<>>
    ELSE IF Head(operators).fn # "constructPath" THEN ConstructedLines(Tail(operators))
    ELSE << [x |-> Head(operators).args[2][2], y |-> Head(operators).args[2][1],
             width |-> Head(operators).args[2][4],
             height |-> Head(operators).args[2][3]] >>
         \o ConstructedLines(Tail(operators))

\* Thick lines and short lines are ignored.
IsIgnoredLine(line) ==
    \/ line.width > 2 /\ line.height > 2
    \/ line.width <= 2 /\ line.height < 10
    \/ line.height <= 2 /\ line.width < 10

\* points.some(point => squared distance to p < 1)
HasPointNear(points, p) ==
    \E i \in 1..Len(points) :
        (p.x - points[i].x) * (p.x - points[i].x)
          + (p.y - points[i].y) * (p.y - points[i].y) < 1

AddPoint(points, p) == IF HasPointNear(points, p) THEN points ELSE Append(points, p)

EndPoint(line) ==
    IF line.height <= 2 THEN [x |-> line.x + line.width, y |-> line.y]
    ELSE [x |-> line.x, y |-> line.y + line.height]

RECURSIVE GridPoints(_, _)
GridPoints(lines, points) ==
    LET line == Head(lines)
        next == IF IsIgnoredLine(line) THEN points
                ELSE AddPoint(AddPoint(points, [x |-> line.x, y |-> line.y]),
                              EndPoint(line))
    IN IF lines = <<>> THEN points
       ELSE IF Len(next) >= 0 THEN GridPoints(Tail(lines), next)
       ELSE points

\* points.reduce(...) over the first n points: the nearest point to the
\* right of p in the same row, undefined if there is none.
\* The first point to the right of p in the same row, however far it is.
RECURSIVE FirstRightPoint(_, _, _)
FirstRightPoint(points, p, n) ==
    LET previous == FirstRightPoint(points, p, n - 1)
        current == points[n]
    IN IF n = 0 THEN undefined
       ELSE IF /\ Abs(current.y - p.y) < 1 /\ current.x > p.x
               /\ previous = undefined
            THEN current
       ELSE previous

RECURSIVE ClosestRightPoint(_, _, _)
ClosestRightPoint(points, p, n) ==
    LET previous == ClosestRightPoint(points, p, n - 1)
        current == points[n]
    IN IF n = 0 THEN undefined
       ELSE IF /\ Abs(current.y - p.y) < 1 /\ current.x > p.x
               /\ (previous = undefined \/ current.x - p.x < previous.x - p.x)
            THEN current
       ELSE previous

RECURSIVE ClosestDownPoint(_, _, _)
ClosestDownPoint(points, p, n) ==
    LET previous == ClosestDownPoint(points, p, n - 1)
        current == points[n]
    IN IF n = 0 THEN undefined
       ELSE IF /\ Abs(current.x - p.x) < 1 /\ current.y > p.y
               /\ (previous = undefined \/ current.y - p.y < previous.y - p.y)
            THEN current
       ELSE previous

RECURSIVE PointCells(_, _)
PointCells(points, n) ==
    LET point == points[n]
        closestRightPoint == ClosestRightPoint(points, point, Len(points))
        closestDownPoint == ClosestDownPoint(points, point, Len(points))
    IN IF n > Len(points) THEN <<>>
       ELSE (IF closestRightPoint # undefined /\ closestDownPoint # undefined
             THEN << [elements |-> <<>>, x |-> point.x, y |-> point.y,
                      width |-> closestRightPoint.x - point.x,
                      height |-> closestDownPoint.y - point.y] >>
             ELSE <<>>) \o PointCells(points, n + 1)

parseCells_js(page) ==
    [failed |-> FALSE,
     cells |-> sort(PointCells(GridPoints(ConstructedLines(page.operators), <<>>), 1),
                    "cellComparer")]

parseCells(layout, page) ==
    IF layout = "js" THEN parseCells_js(page) ELSE parseCells_grid(layout, page)

---------------------------------------------------------------------------
(* parseElements: the text elements of a page.                             *)

\* Math.sqrt on the integer grid (exact for the squares the pages produce).
Sqrt(n) == CHOOSE r \in 0..n : r * r <= n /\ (r + 1) * (r + 1) > n

\* The height worked out from the transform matrix instead of item.height.
WorkaroundHeight(transform) ==
    Sqrt(transform[3] * transform[3] + transform[4] * transform[4])

ElementOfItem(layout, viewport, item) ==
    LET transform == IF layout = "js" THEN UtilTransform(viewport, item.transform)
                     ELSE item.transform
        workaroundHeight == WorkaroundHeight(transform)
    IN [text |-> item.str, x |-> transform[5],
        y |-> IF layout = "js" THEN transform[6] - workaroundHeight ELSE transform[6],
        width |-> item.width, height |-> workaroundHeight]

parseElements(layout, page) ==
    LET elements == [i \in 1..Len(page.items) |->
                        ElementOfItem(layout, page.viewport, page.items[i])]
    IN IF layout = "js" THEN sort(elements, "elementComparer") ELSE elements

---------------------------------------------------------------------------
(* The page loop of parsePdf up to the row loop.                           *)

\* rectangle.y = -(rectangle.y + rectangle.height)
Invert(rectangle) == [rectangle EXCEPT !.y = -(rectangle.y + rectangle.height)]

InvertAll(rectangles) == [i \in 1..Len(rectangles) |-> Invert(rectangles[i])]

\* Whether the cell may own the element, by layout: more than half of the
\* element inside the cell, or any overlap at all.
Owns(layout, cell, element) ==
    IF layout = "js" THEN getArea(intersect(cell, element)) > 0
    ELSE ExceedsPercentage(getPercentageOfElementInCell(element, cell), 50)

\* cells.find(cell => ...) for the owner of an element (0: no owner)
OwnerIndex(layout, cells, element) ==
    FindIndex(cells, LAMBDA cell : Owns(layout, cell, element))

\* The cells after every element was pushed to its owner, in element order.
AllocateElements(layout, cells, elements) ==
    LET owner == [e \in 1..Len(elements) |-> OwnerIndex(layout, cells, elements[e])]
    IN [i \in 1..Len(cells) |->
          LET owned == SelectSeq([e \in 1..Len(elements) |-> e],
                                 LAMBDA e : owner[e] = i)
          IN [cells[i] EXCEPT !.elements = [k \in 1..Len(owned) |-> elements[owned[k]]]]]

\* A cell joins the first row whose last cell has about its Y.
RowIndexOfLast(rows, cell) ==
    FindIndex(rows, LAMBDA row : Abs(row[Len(row)].y - cell.y) < 2)

\* The row a cell joins: the first row whose first cell has about its Y.
RowIndexOf(rows, cell) ==
    FindIndex(rows, LAMBDA row : Abs(row[1].y - cell.y) < 2)

RECURSIVE GroupRows(_, _)
GroupRows(cells, rows) ==
    LET cell == Head(cells)
        next == IF RowIndexOf(rows, cell) = 0 THEN Append(rows, <<cell>>)
                ELSE [rows EXCEPT ![RowIndexOf(rows, cell)] = Append(@, cell)]
    IN IF cells = <<>> THEN rows
       ELSE IF Len(next) > 0 THEN GroupRows(Tail(cells), next)
       ELSE rows

\* The cells of every row sorted, the rows left in the order they were started.
SortCellsOfRows(rows) == [i \in 1..Len(rows) |-> sort(rows[i], "rowCellComparer")]

\* rows.sort(rowComparer), then row.sort(rowCellComparer) for every row
SortRows(rows) ==
    LET sorted == sort(rows, "rowComparer")
    IN [i \in 1..Len(sorted) |-> sort(sorted[i], "rowCellComparer")]

\* The text a heading element is compared by, by layout.
HeadingText(layout, text) ==
    IF layout = "ts" THEN RemoveWhitespace(text) ELSE trim(text)

\* The heading literal, by layout.
Heading(layout, name) ==
    CASE name = "APPLICATION" -> APPLICATION
      [] name = "RECEIPT" -> RECEIPT
      [] name = "LOT" -> LOT
      [] name = "SECTION" -> IF layout = "ts" THEN SECTIONSLASH ELSE SECTION_SLASH
      [] name = "ADDRESS" -> IF layout = "ts" THEN PROPERTYADDRESS ELSE PROPERTY_ADDRESS
      [] name = "DESCRIPTION" -> DESCRIPTION
      [] name = "ASSESS" -> ASSESS
      [] name = "DECISION" -> DECISION

\* cells.find(cell => cell.elements.some(element => ... === heading)); the
\* later layout also wants the element wholly inside the cell.
HasHeading(layout, cell, name) ==
    \E i \in 1..Len(cell.elements) :
        /\ HeadingText(layout, cell.elements[i].text) = Heading(layout, name)
        /\ layout = "js" => contains(cell, cell.elements[i])

Texts(elements) == [i \in 1..Len(elements) |-> elements[i].text]

TrimmedTexts(elements) == [i \in 1..Len(elements) |-> trim(elements[i].text)]

\* The house-number heading is matched on the whole text of the cell.
HasHouseNumberHeading(layout, cell) ==
    IF layout = "ts" THEN RemoveWhitespace(join(Texts(cell.elements), <<>>)) = NO_DOT
    ELSE join(TrimmedTexts(cell.elements), SPACE) = NO_DOT

\* The heading cell as a rectangle, undefined if no cell has the heading.
FindCell(cells, Test(_)) ==
    IF FindIndex(cells, Test) = 0 THEN undefined
    ELSE [x |-> cells[FindIndex(cells, Test)].x, y |-> cells[FindIndex(cells, Test)].y,
          width |-> cells[FindIndex(cells, Test)].width,
          height |-> cells[FindIndex(cells, Test)].height]

HeadingCell(layout, cells, name) ==
    FindCell(cells, LAMBDA cell : HasHeading(layout, cell, name))

\* The heading cells a layout looks for.
FindHeadingCells(layout, cells) ==
    IF layout = "js"
    THEN [assessmentCell |-> HeadingCell(layout, cells, "ASSESS"),
          applicationNumberCell |-> HeadingCell(layout, cells, "APPLICATION"),
          addressCell |-> HeadingCell(layout, cells, "ADDRESS"),
          descriptionCell |-> HeadingCell(layout, cells, "DESCRIPTION"),
          decisionDateCell |-> HeadingCell(layout, cells, "DECISION")]
    ELSE [applicationNumberCell |-> HeadingCell(layout, cells, "APPLICATION"),
          receivedDateCell |-> HeadingCell(layout, cells, "RECEIPT"),
          houseNumberCell |->
              FindCell(cells, LAMBDA cell : HasHouseNumberHeading(layout, cell)),
          lotCell |-> HeadingCell(layout, cells, "LOT"),
          sectionCell |-> HeadingCell(layout, cells, "SECTION"),
          addressCell |-> HeadingCell(layout, cells, "ADDRESS"),
          descriptionCell |-> HeadingCell(layout, cells, "DESCRIPTION")]

---------------------------------------------------------------------------
(* removeOverhangingElements of the later layout of src/scraper.js.        *)

THREE_SPACES == <<" ", " ", " ">>

\* text.split("   ").map(token => token.trim()).filter(token => token !== "")
SplitTokens(text) ==
    LET parts == split(text, THREE_SPACES)
    IN SelectSeq([i \in 1..Len(parts) |-> trim(parts[i])], LAMBDA token : token # <<>>)

\* Every column takes three tokens.
TokenLimitOfTriple(cell, headingCells) == 3

\* How many tokens the column of the cell takes: three under the assessment
\* heading, two under the description, one under the decision date.
TokenLimit(cell, headingCells) ==
    IF ExceedsPercentage(
           getHorizontalOverlapPercentage(cell, headingCells.assessmentCell), 90) THEN 3
    ELSE IF ExceedsPercentage(
           getHorizontalOverlapPercentage(cell, headingCells.descriptionCell), 90) THEN 2
    ELSE IF ExceedsPercentage(
           getHorizontalOverlapPercentage(cell, headingCells.decisionDateCell), 90) THEN 1
    ELSE 0

\* The row after one overhanging element of the cell at columnIndex was
\* handled: its companions leave the cell and the tokens of their joined
\* text come back as new elements of this cell and of the next cells.
SplitOverhang(row, columnIndex, overhangElement, headingCells) ==
    LET cell == row[columnIndex]
        alignedElements ==
            SelectSeq(cell.elements, LAMBDA e : Abs(e.y - overhangElement.y) < 5)
        remaining ==
            SelectSeq(cell.elements, LAMBDA e : ~(Abs(e.y - overhangElement.y) < 5))
        text == trim(join(Texts(alignedElements), <<>>))
        tokens == SplitTokens(text)
        limit == TokenLimit(cell, headingCells)
        kept == [row EXCEPT ![columnIndex].elements = remaining]
    IN IF text = <<>> THEN kept
       ELSE [i \in 1..Len(row) |->
              IF i = columnIndex /\ limit >= 1
              THEN [kept[i] EXCEPT !.elements = Append(@,
                       [text |-> tokens[1], x |-> alignedElements[1].x,
                        y |-> alignedElements[1].y,
                        width |-> cell.x + cell.width - alignedElements[1].x,
                        height |-> alignedElements[1].height])]
              ELSE IF /\ i > columnIndex /\ i - columnIndex < limit
                      /\ Len(tokens) >= i - columnIndex + 1
              THEN [kept[i] EXCEPT !.elements = Append(@,
                       [text |-> tokens[i - columnIndex + 1], x |-> kept[i].x,
                        y |-> alignedElements[1].y, width |-> kept[i].width,
                        height |-> alignedElements[1].height])]
              ELSE kept[i]]

RECURSIVE SplitOverhangs(_, _, _, _)
SplitOverhangs(row, columnIndex, overhangElements, headingCells) ==
    LET next == SplitOverhang(row, columnIndex, Head(overhangElements), headingCells)
    IN IF overhangElements = <<>> THEN row
       ELSE IF Len(next) > 0
            THEN SplitOverhangs(next, columnIndex, Tail(overhangElements), headingCells)
       ELSE row

\* The column loop of one row.
RECURSIVE SplitColumns(_, _, _)
SplitColumns(row, columnIndex, headingCells) ==
    LET cell == row[columnIndex]
        overhangElements == SelectSeq(cell.elements, LAMBDA e : ~contains(cell, e))
        next == SplitOverhangs(row, columnIndex, overhangElements, headingCells)
    IN IF columnIndex > Len(row) THEN row
       ELSE IF Len(next) > 0 THEN SplitColumns(next, columnIndex + 1, headingCells)
       ELSE row

\* The elements of every cell of the row in reading order again.
SortCellElements(row) ==
    [c \in 1..Len(row) |-> [row[c] EXCEPT !.elements = sort(@, "elementComparer")]]

removeOverhangingElements(rows, headingCells) ==
    [r \in 1..Len(rows) |-> SortCellElements(SplitColumns(rows[r], 1, headingCells))]

---------------------------------------------------------------------------
(* The row loop of parsePdf: one record, or none, from one row.            *)

CommentUrl == <<"m","a","i","l","t","o",":","i","n","f","o","@",
                "d","c","g","r","a","n","t",".","s","a",".","g","o","v",".","a","u">>

\* moment().format("YYYY-MM-DD") on the day of the run
ScrapeDate == <<"2","0","1","9","-","0","2","-","1","6">>

AMPERSAND == <<" ", "&", " ">>

LOT_ == <<"L","o","t"," ">>

SECTION_ == <<"S","e","c","t","i","o","n"," ">>

Hundred_ == <<"H","u","n","d","r","e","d"," ">>

BUILDING_RULES_ONLY ==
    <<"B","U","I","L","D","I","N","G"," ","R","U","L","E","S"," ","O","N","L","Y">>

BUILDING_ONLY == <<"B","U","I","L","D","I","N","G"," ","O","N","L","Y">>

PLANNING_ONLY == <<"P","L","A","N","N","I","N","G"," ","O","N","L","Y">>

SPACE_DASH_SPACE == <<" ", "-", " ">>

DW_ELLING == <<"D","W"," ","E","L","L","I","N","G">>

DWELLING == <<"D","W","E","L","L","I","N","G">>

\* row.find(cell => getHorizontalOverlapPercentage(cell, headingCell) > 90)
\* as an index into the row, 0 for undefined
RowCell(row, headingCell) ==
    FindIndex(row, LAMBDA cell :
        ExceedsPercentage(getHorizontalOverlapPercentage(cell, headingCell), 90))

\* elements.filter(element => element.text.trim() !== "-")
\*         .map(element => element.text).join(" & ").replace(/\s\s+/g, " ").trim()
JoinWithoutDashes(elements) ==
    trim(CollapseWhitespace(join(
        Texts(SelectSeq(elements, LAMBDA element : trim(element.text) # DASH)),
        AMPERSAND)))

\* hundredElement.text.trim().startsWith("HD ") ||
\* hundredElement.text.trim().toUpperCase().startsWith("HUNDRED ")
IsHundredText(text) ==
    startsWith(trim(text), HD_) \/ startsWith(toUpperCase(trim(text)), HUNDRED_)

\* text.replace(/^HD /, "").replace(/^HUNDRED /i, "").trim()
StripHundred(text) ==
    LET withoutHd == IF startsWith(text, HD_) THEN substring(text, Len(HD_)) ELSE text
    IN trim(IF startsWith(toUpperCase(withoutHd), HUNDRED_)
            THEN substring(withoutHd, Len(HUNDRED_)) ELSE withoutHd)

\* text.replace(/( - )?SUFFIX$/i, "")
RemoveSuffix(text, suffix) ==
    LET withoutSuffix == SubSeq(text, 1, Len(text) - Len(suffix))
    IN IF ~endsWith(toUpperCase(text), suffix) THEN text
       ELSE IF endsWith(withoutSuffix, SPACE_DASH_SPACE)
            THEN SubSeq(withoutSuffix, 1, Len(withoutSuffix) - Len(SPACE_DASH_SPACE))
       ELSE withoutSuffix

\* /\bDW ELLING\b/i at position i of the text
IsDwEllingAt(text, i) ==
    /\ i + Len(DW_ELLING) - 1 <= Len(text)
    /\ toUpperCase(SubSeq(text, i, i + Len(DW_ELLING) - 1)) = DW_ELLING
    /\ i = 1 \/ ~IsWordChar(text[i - 1])
    /\ i + Len(DW_ELLING) > Len(text) \/ ~IsWordChar(text[i + Len(DW_ELLING)])

\* text.replace(/\bDW ELLING\b/gi, "DWELLING")
RECURSIVE CorrectDwelling(_, _)
CorrectDwelling(text, i) ==
    IF i > Len(text) THEN <<>>
    ELSE IF IsDwEllingAt(text, i)
         THEN DWELLING \o CorrectDwelling(text, i + Len(DW_ELLING))
    ELSE <<text[i]>> \o CorrectDwelling(text, i + 1)

\* The description of src/scraper.ts for a description cell that exists.
CleanDescription(elements) ==
    LET description == trim(CollapseWhitespace(join(Texts(elements), SPACE)))
        truncatedDescription ==
            trim(RemoveSuffix(RemoveSuffix(RemoveSuffix(description,
                BUILDING_RULES_ONLY), BUILDING_ONLY), PLANNING_ONLY))
    IN CorrectDwelling(IF truncatedDescription # <<>> THEN truncatedDescription
                       ELSE description, 1)

\* (description === "") ? "NO DESCRIPTION PROVIDED" : description
DescriptionOrDefault(description) ==
    IF description = <<>> THEN NoDescriptionProvided ELSE description

\* The received date of a row: the first element of the date cell, strictly
\* parsed; moment.invalid() without a date cell or a first element.
ReceivedDate(row, receivedDateCell) ==
    IF RowCell(row, receivedDateCell) # 0
       /\ Len(row[RowCell(row, receivedDateCell)].elements) > 0
    THEN moment(trim(row[RowCell(row, receivedDateCell)].elements[1].text))
    ELSE InvalidMoment

\* What a row gives: nothing ("skip"), a record ("emit") or a TypeError;
\* row is the row as the loop body leaves it.
Skip(row) == [outcome |-> "skip", row |-> row, record |-> undefined]

Throw(row) == [outcome |-> "TypeError", row |-> row, record |-> undefined]

Emit(row, record) == [outcome |-> "emit", row |-> row, record |-> record]


\* The parts "Lot ...", "Section ...", "Hundred ..." that are present.
LegalElements_ts(lot, section, hundred) ==
    (IF lot # <<>> THEN <<LOT_ \o lot>> ELSE <<>>)
    \o (IF section # <<>> THEN <<SECTION_ \o section>> ELSE <<>>)
    \o (IF hundred # <<>> THEN <<Hundred_ \o hundred>> ELSE <<>>)

\* The end of the row loop without its test of the address: every row that
\* comes this far gives a record.
RowOutcomeUnchecked_ts(row, address, houseNumber, applicationNumber, description, url, receivedDate, legalDescription) ==
    Emit(row,
        [applicationNumber |-> applicationNumber,
         address |-> trim(houseNumber \o SPACE \o address),
         description |-> description,
         informationUrl |-> url,
         commentUrl |-> CommentUrl,
         scrapeDate |-> ScrapeDate,
         receivedDate |-> receivedDate,
         legalDescription |-> legalDescription])

\* The end of the row loop of src/scraper.ts: the row is skipped for an
\* address that formats to "" or "-", and gives a record otherwise.
RowOutcome_ts(row, address, houseNumber, applicationNumber, description, url, receivedDate, legalDescription) ==
    IF address = <<>> \/ trim(address) = DASH THEN Skip(row)
    ELSE Emit(row,
             [applicationNumber |-> applicationNumber,
              address |-> trim(houseNumber \o SPACE \o address),
              description |-> description,
              informationUrl |-> url,
              commentUrl |-> CommentUrl,
              scrapeDate |-> ScrapeDate,
              receivedDate |-> receivedDate,
              legalDescription |-> legalDescription])

\* The body of the row loop of src/scraper.ts.
ExtractRow_ts(row, headingCells, url) ==
    LET applicationNumberIndex == RowCell(row, headingCells.applicationNumberCell)
        houseNumberIndex == RowCell(row, headingCells.houseNumberCell)
        lotIndex == RowCell(row, headingCells.lotCell)
        sectionIndex == RowCell(row, headingCells.sectionCell)
        addressIndex == RowCell(row, headingCells.addressCell)
        descriptionIndex == RowCell(row, headingCells.descriptionCell)
        applicationNumber == trim(join(Texts(row[applicationNumberIndex].elements), <<>>))
        addressElements == row[addressIndex].elements
        hundredElement == addressElements[Len(addressElements)]
        isHundred == IsHundredText(hundredElement.text)
        hundred == IF isHundred THEN StripHundred(hundredElement.text) ELSE <<>>
        popped == IF isHundred
                  THEN [row EXCEPT ![addressIndex].elements = SubSeq(@, 1, Len(@) - 1)]
                  ELSE row
        houseNumber == IF houseNumberIndex # 0
                       THEN JoinWithoutDashes(popped[houseNumberIndex].elements)
                       ELSE <<>>
        description == IF descriptionIndex # 0
                       THEN CleanDescription(popped[descriptionIndex].elements)
                       ELSE <<>>
        lot == IF lotIndex # 0 THEN JoinWithoutDashes(popped[lotIndex].elements)
               ELSE <<>>
        section == IF sectionIndex # 0
                   THEN JoinWithoutDashes(popped[sectionIndex].elements)
                   ELSE <<>>
    IN IF applicationNumberIndex = 0 THEN Skip(row)
       ELSE IF ~TestApplicationNumber("ts", applicationNumber) THEN Skip(row)
       ELSE IF addressIndex = 0 THEN Skip(row)
       ELSE IF addressElements = <<>> THEN Throw(row)
       ELSE RowOutcome_ts(popped,
                formatAddress_ts(trim(CollapseWhitespace(
                    join(Texts(popped[addressIndex].elements), COMMA_SPACE)))),
                houseNumber, applicationNumber, DescriptionOrDefault(description), url,
                FormatReceivedDate("ts",
                    ReceivedDate(popped, headingCells.receivedDateCell)),
                join(LegalElements_ts(lot, section, hundred), COMMA_SPACE))

\* The first element of the address cell that names a hundred, 0 if none.
HundredElementIndex(elements) ==
    FindIndex(elements, LAMBDA element :
        startsWith(element.text, HD_) \/ startsWith(toUpperCase(element.text), HUNDRED_))

\* The end of the row loop of src/unnamed/part_000: the row is skipped for
\* an address that formats to "", and gives a record otherwise, unless
\* building the legal description reads an element that is not there.
RowOutcome_p0(row, address, sectionThrows, applicationNumber, description, url, receivedDate, legalDescription) ==
    IF address = <<>> THEN Skip(row)
    ELSE IF sectionThrows THEN Throw(row)
    ELSE Emit(row,
             [applicationNumber |-> applicationNumber,
              address |-> address,
              description |-> description,
              informationUrl |-> url,
              commentUrl |-> CommentUrl,
              scrapeDate |-> ScrapeDate,
              receivedDate |-> receivedDate,
              legalDescription |-> legalDescription])

\* The body of the row loop of src/unnamed/part_000.
ExtractRow_p0(row, headingCells, url) ==
    LET applicationNumberIndex == RowCell(row, headingCells.applicationNumberCell)
        houseNumberIndex == RowCell(row, headingCells.houseNumberCell)
        lotIndex == RowCell(row, headingCells.lotCell)
        sectionIndex == RowCell(row, headingCells.sectionCell)
        addressIndex == RowCell(row, headingCells.addressCell)
        descriptionIndex == RowCell(row, headingCells.descriptionCell)
        applicationNumber == trim(join(Texts(row[applicationNumberIndex].elements), <<>>))
        houseNumber ==
            IF \/ houseNumberIndex = 0
               \/ Len(row[houseNumberIndex].elements) = 0
               \/ trim(row[houseNumberIndex].elements[1].text) = DASH
            THEN <<>> ELSE row[houseNumberIndex].elements[1].text
        description == IF descriptionIndex = 0 THEN <<>>
                       ELSE trim(CollapseWhitespace(
                                join(Texts(row[descriptionIndex].elements), SPACE)))
        hasLot == /\ lotIndex # 0 /\ Len(row[lotIndex].elements) > 0
                  /\ trim(row[lotIndex].elements[1].text) # DASH
        sectionHasElements == sectionIndex # 0 /\ Len(row[sectionIndex].elements) > 0
        \* the section condition reads the first element of the lot cell
        sectionThrows == sectionHasElements
                         /\ (lotIndex = 0 \/ Len(row[lotIndex].elements) = 0)
        hasSection == sectionHasElements /\ trim(row[lotIndex].elements[1].text) # DASH
        hundredIndex == HundredElementIndex(row[addressIndex].elements)
        legalElements ==
            (IF hasLot THEN <<LOT_ \o row[lotIndex].elements[1].text>> ELSE <<>>)
            \o (IF hasSection THEN <<SECTION_ \o row[sectionIndex].elements[1].text>>
                ELSE <<>>)
            \o (IF hundredIndex # 0
                THEN <<Hundred_
                       \o StripHundred(row[addressIndex].elements[hundredIndex].text)>>
                ELSE <<>>)
    IN IF applicationNumberIndex = 0 THEN Skip(row)
       ELSE IF ~TestApplicationNumber("p0", applicationNumber) THEN Skip(row)
       ELSE IF addressIndex = 0 THEN Throw(row)
       ELSE RowOutcome_p0(row,
                formatAddress_p0(trim(CollapseWhitespace(
                    houseNumber \o SPACE
                    \o join(Texts(row[addressIndex].elements), COMMA_SPACE)))),
                sectionThrows, applicationNumber, DescriptionOrDefault(description), url,
                FormatReceivedDate("p0",
                    ReceivedDate(row, headingCells.receivedDateCell)),
                join(legalElements, COMMA_SPACE))

\* The end of the row loop of the later layout of src/scraper.js: the row
\* is skipped for an address that formats to "", and gives a record
\* otherwise; its records have no received date and no legal description.
RowOutcome_js(row, address, applicationNumber, description, url) ==
    IF address = <<>> THEN Skip(row)
    ELSE Emit(row,
             [applicationNumber |-> applicationNumber,
              address |-> address,
              description |-> description,
              informationUrl |-> url,
              commentUrl |-> CommentUrl,
              scrapeDate |-> ScrapeDate,
              receivedDate |-> null,
              legalDescription |-> null])

\* The body of the row loop of the later layout of src/scraper.js.
ExtractRow_js(row, headingCells, url) ==
    LET applicationNumberIndex == RowCell(row, headingCells.applicationNumberCell)
        addressIndex == RowCell(row, headingCells.addressCell)
        descriptionIndex == RowCell(row, headingCells.descriptionCell)
        applicationNumber == trim(join(Texts(row[applicationNumberIndex].elements), <<>>))
        description == IF descriptionIndex = 0 THEN <<>>
                       ELSE trim(CollapseWhitespace(
                                join(Texts(row[descriptionIndex].elements), <<>>)))
    IN IF applicationNumberIndex = 0 \/ addressIndex = 0 THEN Throw(row)
       ELSE IF ~TestApplicationNumber("js", applicationNumber) THEN Skip(row)
       ELSE RowOutcome_js(row,
                formatAddress_p0(trim(CollapseWhitespace(
                    join(Texts(row[addressIndex].elements), <<>>)))),
                applicationNumber, DescriptionOrDefault(description), url)

ExtractRow(layout, row, headingCells, url) ==
    CASE layout = "ts" -> ExtractRow_ts(row, headingCells, url)
      [] layout = "p0" -> ExtractRow_p0(row, headingCells, url)
      [] layout = "js" -> ExtractRow_js(row, headingCells, url)

---------------------------------------------------------------------------
(* The council's web site as the run finds it: the links of the index      *)
(* page and, per link, the pages of the PDF register behind it.            *)

T_141_17 == <<"1","4","1","/","1","7">>

T_142_17 == <<"1","4","2","/","1","7">>

T_143_17 == <<"1","4","3","/","1","7">>

T_144_17 == <<"1","4","4","/","1","7">>

T_12_34_18 == <<"1","2","/","3","4","/","1","8">>

T_13_34_18 == <<"1","3","/","3","4","/","1","8">>

T_14_34_18 == <<"1","4","/","3","4","/","1","8">>

T_1_SMITH_ST == <<"1"," ","S","M","I","T","H"," ","S","T">>

T_9_SMITH_ST == <<"9"," ","S","M","I","T","H"," ","S","T">>

T_HD_GRANT == <<"H","D"," ","G","R","A","N","T">>

T_1_SMITH_ST_GRANT == <<"1"," ","S","M","I","T","H"," ","S","T",","," ","G","R","A","N","T">>

T_9_SMITH_ST_GRANT == <<"9"," ","S","M","I","T","H"," ","S","T",","," ","G","R","A","N","T">>

T_5_01_2019 == <<"5","/","0","1","/","2","0","1","9">>

T_31_02_2019 == <<"3","1","/","0","2","/","2","0","1","9">>

T_SHED == <<"S","H","E","D">>

T_COVER == <<"D","E","V","E","L","O","P","M","E","N","T"," ","R","E","G","I","S","T","E","R">>

Origin == <<"h","t","t","p","s",":","/","/","w","w","w",".","d","c","g","r","a","n","t",".","s","a",".","g","o","v",".","a","u">>

BaseDirectory == <<"h","t","t","p","s",":","/","/","w","w","w",".","d","c","g","r","a","n","t",".","s","a",".","g","o","v",".","a","u","/","s","e","r","v","i","c","e","s","/","p","l","a","n","n","i","n","g","-","a","n","d","-","d","e","v","e","l","o","p","m","e","n","t","/">>

HTTPS_ == <<"h","t","t","p","s",":">>

DOT_PDF == <<".","p","d","f">>

HREF_A == <<"/","a",".","p","d","f">>

HREF_B == <<"/","b",".","P","D","F">>

HREF_C == <<"c",".","p","d","f">>

HREF_D == <<"/","d",".","h","t","m","l">>

\* new urlparser.URL(href, DevelopmentApplicationsUrl).href
ResolveUrl(href) ==
    IF startsWith(href, HTTPS_) THEN href
    ELSE IF startsWith(href, SLASH) THEN Origin \o href
    ELSE BaseDirectory \o href

\* pdfUrl.toLowerCase().includes(".pdf")
IsPdfUrl(pdfUrl) == IndexOfFrom(toLowerCase(pdfUrl), DOT_PDF, 1) # 0

\* The links an index page may carry.
Hrefs == {HREF_A, HREF_B, HREF_C, HREF_D}

\* The rows of a register page, top to bottom; a row is the text lines of
\* its three cells (application number, address, date or description).
HeadingRow(layout) ==
    << <<APPLICATION>>, <<PROPERTY_ADDRESS>>,
       <<IF layout = "js" THEN DESCRIPTION ELSE RECEIPT>> >>

\* A heading row without the application-number heading.
HeadingRowNoApplication(layout) == [HeadingRow(layout) EXCEPT ![1] = <<ASSESS>>]

\* A heading row without the address heading.
HeadingRowNoAddress(layout) == [HeadingRow(layout) EXCEPT ![2] = <<DESCRIPTION>>]

\* An application number the layout accepts.
Number(layout, n) ==
    IF layout = "js" THEN <<T_12_34_18, T_13_34_18, T_14_34_18>>[n]
    ELSE <<T_141_17, T_142_17, T_143_17>>[n]

\* The address cell of a layout: the later layout has the whole address in
\* one text run, the earlier ones one run per line.
Address(layout, street) ==
    IF layout = "js" THEN << street \o COMMA_SPACE \o GRANT >> ELSE << street, GRANT >>

\* An application with a date that parses (a description in the later layout).
RowValid(layout) ==
    << <<Number(layout, 1)>>, Address(layout, T_1_SMITH_ST),
       <<IF layout = "js" THEN T_SHED ELSE T_5_01_2019>> >>

\* The same application number again, with other details.
RowDuplicate(layout) ==
    << <<Number(layout, 1)>>, Address(layout, T_9_SMITH_ST), <<>> >>

\* An application number of the other layout generation, and a date that
\* does not exist.
RowOtherGeneration(layout) ==
    << <<IF layout = "js" THEN T_141_17 ELSE T_12_34_18>>,
       Address(layout, T_1_SMITH_ST), <<T_31_02_2019>> >>

\* An application with a hundred line and an empty third cell.
RowNoDate(layout) ==
    << <<Number(layout, 2)>>,
       IF layout = "js" THEN Address(layout, T_1_SMITH_ST)
       ELSE Address(layout, T_1_SMITH_ST) \o <<T_HD_GRANT>>,
       <<>> >>

\* No application number.
RowBadNumber(layout) == << <<ASSESS>>, Address(layout, T_1_SMITH_ST), <<>> >>

\* An address cell that owns no text.
RowEmptyAddress(layout) == << <<Number(layout, 3)>>, <<>>, <<T_5_01_2019>> >>

\* An address cell that owns only white space.
RowBlankAddress(layout) == << <<Number(layout, 3)>>, <<SPACE>>, <<>> >>

\* An address that is a placeholder dash.
RowDashAddress(layout) == << <<T_144_17>>, <<DASH>>, <<>> >>

\* A filled rectangle of the drawing.
FilledRectangle(x, y, width, height) ==
    << [fn |-> "constructPath", args |-> << <<"rectangle">>, <<x, y, width, height>> >>],
       [fn |-> "fill", args |-> <<>>] >>

RECURSIVE Flatten(_)
Flatten(parts) == IF parts = <<>> THEN <<>> ELSE Head(parts) \o Flatten(Tail(parts))

\* The drawing of a table of rowCount rows and three columns in the earlier
\* layouts: the rules are thin filled rectangles, drawn under a translation.
GridOperators(rowCount) ==
    << [fn |-> "save", args |-> <<>>],
       [fn |-> "transform", args |-> <<1, 0, 0, 1, 0, 10>>] >>
    \o Flatten([i \in 1..(rowCount + 1) |->
                   FilledRectangle(0, (i - 1) * 100 - 10, 300, 1)])
    \o Flatten([j \in 1..4 |->
                   FilledRectangle((j - 1) * 100, -10, 1, rowCount * 100)])
    \o << [fn |-> "restore", args |-> <<>>] >>

\* The drawing of the table in the later layout: one path per rule segment,
\* its co-ordinates given as y, x, height, width.  A ragged table has no
\* segment under the first cell of its last row.
SegmentOperators(rowCount, ragged) ==
    SelectSeq(
        Flatten([i \in 1..(rowCount + 1) |->
                    [j \in 1..3 |->
                        [fn |-> "constructPath", boundary |-> i, column |-> j,
                         args |-> << <<"rectangle">>,
                                     <<(i - 1) * 100, (j - 1) * 100, 1, 100>> >>]]]),
        LAMBDA operator : ~(ragged /\ operator.boundary = rowCount + 1
                                   /\ operator.column = 1))

\* The text runs of the rows: line k of the cell in column c of row r.
TextItems(layout, rows) ==
    Flatten(Flatten(
        [r \in 1..Len(rows) |->
            [c \in 1..Len(rows[r]) |->
                [k \in 1..Len(rows[r][c]) |->
                    [str |-> rows[r][c][k],
                     transform |-> <<10, 0, 0, 10, (c - 1) * 100 + 10,
                                     (Len(rows) - r) * 100 + 60 - 20 * (k - 1)>>,
                     width |-> 50]]]]))

\* page.getViewport(1.0).transform of a page with the given number of rows
Viewport(rowCount) == <<1, 0, 0, -1, 0, rowCount * 100>>

\* A page with the table of the given rows ("ragged": see SegmentOperators).
TablePage(layout, rows, ragged) ==
    [operators |-> IF layout = "js" THEN SegmentOperators(Len(rows), ragged)
                   ELSE GridOperators(Len(rows)),
     items |-> TextItems(layout, rows),
     viewport |-> Viewport(Len(rows))]

\* A page without any drawing, such as a cover sheet.
CoverPage ==
    [operators |-> <<>>,
     items |-> << [str |-> T_COVER, transform |-> <<10, 0, 0, 10, 10, 60>>,
                   width |-> 50] >>,
     viewport |-> Viewport(1)]

\* The registers behind the three PDF links.
Document(layout, pdfUrl) ==
    IF pdfUrl = ResolveUrl(HREF_A)
    THEN << TablePage(layout, <<HeadingRow(layout), RowValid(layout),
                                RowBadNumber(layout)>>, FALSE),
            CoverPage,
            TablePage(layout, <<HeadingRow(layout), RowNoDate(layout)>>, FALSE) >>
    ELSE IF pdfUrl = ResolveUrl(HREF_B)
    THEN << TablePage(layout, <<HeadingRowNoApplication(layout), RowValid(layout)>>,
                      FALSE),
            TablePage(layout, <<HeadingRowNoAddress(layout), RowValid(layout)>>, FALSE),
            TablePage(layout, <<HeadingRow(layout), RowDuplicate(layout),
                                RowOtherGeneration(layout)>>, FALSE) >>
    ELSE << TablePage(layout, <<HeadingRow(layout), RowBlankAddress(layout),
                                RowDashAddress(layout), RowEmptyAddress(layout)>>,
                      layout = "js"),
            TablePage(layout, <<HeadingRow(layout), RowNoDate(layout)>>, FALSE) >>

---------------------------------------------------------------------------
(* The database and main's choice of documents.                            *)

\* The row insertRow binds for a record.
DataRow(developmentApplication) ==
    [council_reference |-> developmentApplication.applicationNumber,
     address |-> developmentApplication.address,
     description |-> developmentApplication.description,
     info_url |-> developmentApplication.informationUrl,
     comment_url |-> developmentApplication.commentUrl,
     date_scraped |-> developmentApplication.scrapeDate,
     date_received |-> developmentApplication.receivedDate,
     legal_description |-> developmentApplication.legalDescription]

\* A plain "insert into": the row is added whatever the table holds.
InsertPlain(layout, database, developmentApplication) ==
    Append(database, DataRow(developmentApplication))

\* The table after a successful insertRow: "insert or replace" in
\* src/scraper.ts, "insert or ignore" in the older sources, on a table whose
\* primary key is council_reference.
insertRow(layout, database, developmentApplication) ==
    LET row == DataRow(developmentApplication)
        stored == \E i \in 1..Len(database) :
                      database[i].council_reference = row.council_reference
    IN IF layout = "ts"
       THEN Append(SelectSeq(database,
                       LAMBDA r : r.council_reference # row.council_reference), row)
       ELSE IF stored THEN database ELSE Append(database, row)

\* The date of an earlier run.
PreviousScrapeDate == <<"2","0","1","9","-","0","2","-","0","9">>

\* A row an earlier run left in data.sqlite.
PreviousRow(layout) ==
    [council_reference |-> Number(layout, 1),
     address |-> SMITH_STREET \o COMMA_SPACE \o GRANT_SA,
     description |-> T_SHED,
     info_url |-> ResolveUrl(HREF_B),
     comment_url |-> CommentUrl,
     date_scraped |-> PreviousScrapeDate,
     date_received |-> IF layout = "js" THEN null ELSE <<>>,
     legal_description |-> IF layout = "js" THEN null ELSE <<>>]

\* getRandom(minimum, maximum): any integer of [minimum, maximum)
getRandom(minimum, maximum) == minimum..(maximum - 1)

\* The distinct PDF URLs among the links of the index page, in page order.
RECURSIVE FoundPdfUrls(_, _)
FoundPdfUrls(links, pdfUrls) ==
    LET pdfUrl == ResolveUrl(Head(links))
        next == IF IsPdfUrl(pdfUrl) /\ ~Includes(pdfUrls, pdfUrl)
                THEN Append(pdfUrls, pdfUrl) ELSE pdfUrls
    IN IF links = <<>> THEN pdfUrls
       ELSE IF Len(next) >= 0 THEN FoundPdfUrls(Tail(links), next)
       ELSE pdfUrls

reverse(array) == [i \in 1..Len(array) |-> array[Len(array) - i + 1]]

\* A selection that draws the other URL from the whole list, the first URL
\* included (the list without its shift).
SelectedPdfUrlsUnshifted(found, other, coin) ==
    LET selected == IF Len(found) > 1 THEN <<found[1], found[other + 1]>>
                    ELSE <<found[1]>>
    IN IF coin = 0 THEN reverse(selected) ELSE selected

\* selectedPdfUrls for the random numbers drawn: the first URL, one of the
\* others (by its index in the list after the shift), perhaps reversed.
SelectedPdfUrls(found, other, coin) ==
    LET selected == IF Len(found) > 1 THEN <<found[1], Tail(found)[other + 1]>>
                    ELSE <<found[1]>>
    IN IF coin = 0 THEN reverse(selected) ELSE selected

---------------------------------------------------------------------------
(* The run of main as a state machine.  pc is the await (or the loop       *)
(* position) the run has reached; error is the value main's promise was    *)
(* rejected with, "none" while it has not been rejected.                   *)

\* The most links an index page carries.
MaxLinks == 3

Layouts == {"ts", "p0", "js"}

\* probe holds the arguments and the results of a function that is applied
\* on its own, outside a run of main; it is undefined during a run.
VARIABLES layout, database, pc, error, pdfUrls, selectedPdfUrls,
          documentIndex, pageIndex, cells, elements, rows, headingCells,
          rowIndex, developmentApplications, recordIndex, probe

vars == << layout, database, pc, error, pdfUrls, selectedPdfUrls,
           documentIndex, pageIndex, cells, elements, rows, headingCells,
           rowIndex, developmentApplications, recordIndex, probe >>

\* The index pages the site may serve.
IndexPages == UNION {[1..n -> Hrefs] : n \in 0..MaxLinks}

\* The document parsePdf is working on, and its pages.
CurrentUrl == selectedPdfUrls[documentIndex]

CurrentDocument == Document(layout, CurrentUrl)

CurrentPage == CurrentDocument[pageIndex]

Init ==
    /\ layout \in Layouts
    /\ database \in {<<>>, <<PreviousRow(layout)>>}
    /\ pc = "main"
    /\ error = "none"
    /\ pdfUrls = <<>>
    /\ selectedPdfUrls = <<>>
    /\ documentIndex = 0
    /\ pageIndex = 0
    /\ cells = <<>>
    /\ elements = <<>>
    /\ rows = <<>>
    /\ headingCells = undefined
    /\ rowIndex = 0
    /\ developmentApplications = <<>>
    /\ recordIndex = 0
    /\ probe = undefined

\* main's promise is rejected: nothing after the failing await runs.
Reject(reason) ==
    /\ error' = reason
    /\ pc' = "done"

\* main: the index page arrives.
RetrieveIndexPage ==
    /\ pc = "main"
    /\ pc' = "select"
    /\ UNCHANGED << probe, layout, database, error, pdfUrls, selectedPdfUrls, documentIndex,
                    pageIndex, cells, elements, rows, headingCells, rowIndex,
                    developmentApplications, recordIndex >>

\* main: the request for the index page fails.
RetrieveIndexPageFails ==
    /\ pc = "main"
    /\ Reject("RequestError")
    /\ UNCHANGED << probe, layout, database, pdfUrls, selectedPdfUrls, documentIndex,
                    pageIndex, cells, elements, rows, headingCells, rowIndex,
                    developmentApplications, recordIndex >>

\* main: the PDF URLs among the links of the index page are collected and
\* one or two of them selected.
SelectPdfUrls ==
    /\ pc = "select"
    /\ \E links \in IndexPages :
       LET found == FoundPdfUrls(links, <<>>)
       IN IF Len(found) = 0
          THEN /\ pc' = "done"
               /\ UNCHANGED << pdfUrls, selectedPdfUrls, documentIndex >>
          ELSE /\ \E other \in (IF Len(found) > 1 THEN getRandom(0, Len(found) - 1)
                                ELSE {0}) :
                    \E coin \in getRandom(0, 2) :
                       selectedPdfUrls' = SelectedPdfUrls(found, other, coin)
               /\ pdfUrls' = Tail(found)
               /\ documentIndex' = 1
               /\ pc' = "request"
    /\ UNCHANGED << probe, layout, database, error, pageIndex, cells, elements, rows,
                    headingCells, rowIndex, developmentApplications, recordIndex >>


\* The cells array after cells of the rows were changed in place: a cell of
\* oldRows is the same object as the equal cell of the array.
SyncCells(array, oldRows, newRows) ==
    [i \in 1..Len(array) |->
        IF \E r \in 1..Len(oldRows) : \E c \in 1..Len(oldRows[r]) :
               oldRows[r][c] = array[i]
        THEN LET r == CHOOSE r \in 1..Len(oldRows) :
                          \E c \in 1..Len(oldRows[r]) : oldRows[r][c] = array[i]
                 c == CHOOSE c \in 1..Len(oldRows[r]) : oldRows[r][c] = array[i]
             IN newRows[r][c]
        ELSE array[i]]

\* The page once the overhanging elements of its rows are split (in the
\* later layout of src/scraper.js; finalRows = sortedRows otherwise).
FinishedPage(allocated, sortedElements, sortedRows, found, finalRows) ==
    [cells |-> IF finalRows = sortedRows THEN allocated
               ELSE SyncCells(allocated, sortedRows, finalRows),
     elements |-> sortedElements, rows |-> finalRows,
     headingCells |-> found, skipped |-> FALSE]

\* The page once its heading cells are looked for: it is left if the
\* application number heading or the address heading is missing.
HeadedPage(source, allocated, sortedElements, sortedRows, found) ==
    IF found.applicationNumberCell = undefined \/ found.addressCell = undefined
    THEN [cells |-> allocated, elements |-> sortedElements, rows |-> sortedRows,
          headingCells |-> found, skipped |-> TRUE]
    ELSE FinishedPage(allocated, sortedElements, sortedRows, found,
                      IF source = "js" THEN removeOverhangingElements(sortedRows, found)
                      ELSE sortedRows)

\* The page once its cells are grouped into rows: it is left if it has none.
GroupedPage(source, allocated, sortedElements, grouped) ==
    IF Len(grouped) = 0
    THEN [cells |-> allocated, elements |-> sortedElements, rows |-> grouped,
          headingCells |-> undefined, skipped |-> TRUE]
    ELSE HeadedPage(source, allocated, sortedElements, SortRows(grouped),
                    FindHeadingCells(source, allocated))

\* The page once every element is given to its cell.
AllocatedPage(source, allocated, sortedElements) ==
    GroupedPage(source, allocated, sortedElements, GroupRows(allocated, <<>>))

\* The page once its cells and elements are inverted and sorted.
SortedPage(source, sortedCells, sortedElements) ==
    AllocatedPage(source, AllocateElements(source, sortedCells, sortedElements),
                  sortedElements)

\* One turn of the page loop from the parsed cells and elements up to the
\* row loop: [cells, elements, rows, headingCells, skipped].
ProcessedPage(source, parsedCells, parsedElements) ==
    SortedPage(source,
               IF source = "js" THEN parsedCells
               ELSE sort(InvertAll(parsedCells), "cellComparer"),
               IF source = "js" THEN parsedElements
               ELSE sort(InvertAll(parsedElements), "elementComparer"))

\* A row loop that stops one row early.
IsLastRowOffByOne(index, pageRows) == index >= Len(pageRows) - 1

\* The row loop is at its last row.
IsLastRow(index, pageRows) == index >= Len(pageRows)

\* The page loop is at its last page.
IsLastPage(index, document) == index >= Len(document)

\* A loop over the selected documents that does not move on: the document
\* is parsed again after its records were inserted.
NextDocumentAgain ==
    IF documentIndex < Len(selectedPdfUrls)
    THEN /\ documentIndex' = documentIndex
         /\ pc' = "request"
    ELSE /\ pc' = "done"
         /\ UNCHANGED documentIndex

\* main's loop over the selected documents moves on.
NextDocument ==
    IF documentIndex < Len(selectedPdfUrls)
    THEN /\ documentIndex' = documentIndex + 1
         /\ pc' = "request"
    ELSE /\ pc' = "done"
         /\ UNCHANGED documentIndex

\* parsePdf returns the records: main inserts them one by one.
ReturnRecords(records) ==
    /\ recordIndex' = 1
    /\ IF Len(records) > 0
       THEN pc' = "insert" /\ UNCHANGED documentIndex
       ELSE NextDocument

\* The page loop moves on.
NextPage(records) ==
    IF IsLastPage(pageIndex, CurrentDocument)
    THEN ReturnRecords(records) /\ UNCHANGED pageIndex
    ELSE /\ pageIndex' = pageIndex + 1
         /\ pc' = "getPage"
         /\ UNCHANGED << documentIndex, recordIndex >>

\* parsePdf: the PDF arrives.
RequestPdf ==
    /\ pc = "request"
    /\ developmentApplications' = <<>>
    /\ pageIndex' = 0
    /\ pc' = "getDocument"
    /\ UNCHANGED << probe, layout, database, error, pdfUrls, selectedPdfUrls,
                    documentIndex, cells, elements, rows, headingCells, rowIndex,
                    recordIndex >>

\* parsePdf: the request for the PDF fails.
RequestPdfFails ==
    /\ pc = "request"
    /\ Reject("RequestError")
    /\ UNCHANGED << probe, layout, database, pdfUrls, selectedPdfUrls, documentIndex,
                    pageIndex, cells, elements, rows, headingCells, rowIndex,
                    developmentApplications, recordIndex >>

\* parsePdf: pdf.js opens the document.
GetDocument ==
    /\ pc = "getDocument"
    /\ IF Len(CurrentDocument) = 0
       THEN ReturnRecords(developmentApplications) /\ UNCHANGED pageIndex
       ELSE /\ pageIndex' = 1
            /\ pc' = "getPage"
            /\ UNCHANGED << documentIndex, recordIndex >>
    /\ UNCHANGED << probe, layout, database, error, pdfUrls, selectedPdfUrls, cells,
                    elements, rows, headingCells, rowIndex, developmentApplications >>

\* parsePdf: pdf.js cannot open the document.
GetDocumentFails ==
    /\ pc = "getDocument"
    /\ Reject("PdfError")
    /\ UNCHANGED << probe, layout, database, pdfUrls, selectedPdfUrls, documentIndex,
                    pageIndex, cells, elements, rows, headingCells, rowIndex,
                    developmentApplications, recordIndex >>

\* parsePdf: the page arrives; the locals of the loop body are fresh.
GetPage ==
    /\ pc = "getPage"
    /\ cells' = <<>>
    /\ elements' = <<>>
    /\ rows' = <<>>
    /\ headingCells' = undefined
    /\ rowIndex' = 0
    /\ pc' = "parseCells"
    /\ UNCHANGED << probe, layout, database, error, pdfUrls, selectedPdfUrls,
                    documentIndex, pageIndex, developmentApplications, recordIndex >>

\* parseCells returns the cells, or its walk raises a TypeError.
CellsParsed(parsed) ==
    IF parsed.failed
    THEN Reject("TypeError") /\ UNCHANGED cells
    ELSE /\ cells' = parsed.cells
         /\ pc' = "parseElements"
         /\ UNCHANGED error

\* parsePdf: await parseCells(page)
ParseCells ==
    /\ pc = "parseCells"
    /\ CellsParsed(parseCells(layout, CurrentPage))
    /\ UNCHANGED << probe, layout, database, pdfUrls, selectedPdfUrls, documentIndex,
                    pageIndex, elements, rows, headingCells, rowIndex,
                    developmentApplications, recordIndex >>

\* parsePdf: await parseElements(page)
ParseElements ==
    /\ pc = "parseElements"
    /\ elements' = parseElements(layout, CurrentPage)
    /\ pc' = "processPage"
    /\ UNCHANGED << probe, layout, database, error, pdfUrls, selectedPdfUrls,
                    documentIndex, pageIndex, cells, rows, headingCells, rowIndex,
                    developmentApplications, recordIndex >>

\* A page loop with "break" where the code has "continue": a page that is
\* left ends the document.
PageProcessedBreaks(processed) ==
    /\ cells' = processed.cells
    /\ elements' = processed.elements
    /\ rows' = processed.rows
    /\ headingCells' = processed.headingCells
    /\ IF processed.skipped
       THEN ReturnRecords(developmentApplications) /\ UNCHANGED << pageIndex, rowIndex >>
       ELSE /\ rowIndex' = 1
            /\ pc' = "row"
            /\ UNCHANGED << documentIndex, pageIndex, recordIndex >>

\* The page loop goes on to the rows of the page, or leaves the page.
PageProcessed(processed) ==
    /\ cells' = processed.cells
    /\ elements' = processed.elements
    /\ rows' = processed.rows
    /\ headingCells' = processed.headingCells
    /\ IF processed.skipped
       THEN NextPage(developmentApplications) /\ UNCHANGED rowIndex
       ELSE /\ rowIndex' = 1
            /\ pc' = "row"
            /\ UNCHANGED << documentIndex, pageIndex, recordIndex >>

\* parsePdf: ownership, rows and headings of the page; a page without rows
\* or without a mandatory heading is left.
ProcessPage ==
    /\ pc = "processPage"
    /\ PageProcessed(ProcessedPage(layout, cells, elements))
    /\ UNCHANGED << probe, layout, database, error, pdfUrls, selectedPdfUrls,
                    developmentApplications >>

\* The records after the turn of the row loop.
RecordsWith(extracted) ==
    IF extracted.outcome = "emit"
    THEN Append(developmentApplications, extracted.record)
    ELSE developmentApplications

\* The turn of the row loop ends: with a TypeError, which ends the run, or
\* with the next row, the next page or the return of the records.
RowExtracted(extracted) ==
    IF extracted.outcome = "TypeError"
    THEN /\ Reject("TypeError")
         /\ UNCHANGED << cells, rows, rowIndex, developmentApplications,
                         documentIndex, pageIndex, recordIndex >>
    ELSE /\ rows' = [rows EXCEPT ![rowIndex] = extracted.row]
         /\ cells' = IF extracted.row = rows[rowIndex] THEN cells
                     ELSE SyncCells(cells, <<rows[rowIndex]>>, <<extracted.row>>)
         /\ developmentApplications' = RecordsWith(extracted)
         /\ rowIndex' = rowIndex + 1
         /\ UNCHANGED error
         /\ IF IsLastRow(rowIndex, rows)
            THEN NextPage(RecordsWith(extracted))
            ELSE /\ pc' = "row"
                 /\ UNCHANGED << documentIndex, pageIndex, recordIndex >>

\* parsePdf: one turn of the row loop.
ExtractDevelopmentApplication ==
    /\ pc = "row"
    /\ RowExtracted(ExtractRow(layout, rows[rowIndex], headingCells, CurrentUrl))
    /\ UNCHANGED << probe, layout, database, pdfUrls, selectedPdfUrls, elements,
                    headingCells >>

\* main: await insertRow(database, developmentApplication) succeeds
InsertRow ==
    /\ pc = "insert"
    /\ database' = insertRow(layout, database, developmentApplications[recordIndex])
    /\ recordIndex' = recordIndex + 1
    /\ IF recordIndex >= Len(developmentApplications)
       THEN NextDocument
       ELSE pc' = "insert" /\ UNCHANGED documentIndex
    /\ UNCHANGED << probe, layout, error, pdfUrls, selectedPdfUrls, pageIndex, cells,
                    elements, rows, headingCells, rowIndex, developmentApplications >>

\* main: the statement fails (the database is locked, the disk is full)
InsertRowFails ==
    /\ pc = "insert"
    /\ Reject("SqliteError")
    /\ UNCHANGED << probe, layout, database, pdfUrls, selectedPdfUrls, documentIndex,
                    pageIndex, cells, elements, rows, headingCells, rowIndex,
                    developmentApplications, recordIndex >>

Next ==
    \/ RetrieveIndexPage
    \/ RetrieveIndexPageFails
    \/ SelectPdfUrls
    \/ RequestPdf
    \/ RequestPdfFails
    \/ GetDocument
    \/ GetDocumentFails
    \/ GetPage
    \/ ParseCells
    \/ ParseElements
    \/ ProcessPage
    \/ ExtractDevelopmentApplication
    \/ InsertRow
    \/ InsertRowFails

Spec == Init /\ [][Next]_vars


---------------------------------------------------------------------------
(* Properties of the run.                                                  *)

\* The text of the cell of the row aligned with the heading cell (the
\* texts of its elements joined), undefined if no cell is aligned.
AlignedText(row, headingCell) ==
    IF RowCell(row, headingCell) = 0 THEN undefined
    ELSE trim(join(Texts(row[RowCell(row, headingCell)].elements), <<>>))

\* The row fails the validation of the row loop: no cell under the
\* application-number heading, a text there that does not match the
\* pattern, no cell under the address heading, or an address cell that owns
\* no text element or only blank text.
RowFailsValidation(source, row, headings) ==
    \/ RowCell(row, headings.applicationNumberCell) = 0
    \/ ~TestApplicationNumber(source, AlignedText(row, headings.applicationNumberCell))
    \/ RowCell(row, headings.addressCell) = 0
    \/ row[RowCell(row, headings.addressCell)].elements = <<>>
    \/ AlignedText(row, headings.addressCell) = <<>>

\* After the current row the run goes on with the next row, else with the
\* next page, if the page or the document has one.
GoesOnAfterRow ==
    IF rowIndex < Len(rows) THEN pc' = "row" /\ rowIndex' = rowIndex + 1
    ELSE IF pageIndex < Len(CurrentDocument)
         THEN pc' = "getPage" /\ pageIndex' = pageIndex + 1
    ELSE pc' \in {"insert", "request", "done"}

\* C1: on a page whose mandatory headings were found, a row that fails the
\* validation is only skipped: the turn of the row loop raises no
\* exception, adds no record, and the run goes on with the next row or the
\* next page.
C1_RowFailureSkipsOnlyTheRow ==
    [][(pc = "row" /\ RowFailsValidation(layout, rows[rowIndex], headingCells))
         => /\ error' = "none"
            /\ developmentApplications' = developmentApplications
            /\ GoesOnAfterRow]_vars

\* The page has a text element that reads as the heading.
PageHasHeadingText(name) ==
    \E i \in 1..Len(elements) :
        HeadingText(layout, elements[i].text) = Heading(layout, name)

\* The page is one parsePdf leaves: it has no cell, hence no row, or no
\* text that is the application-number heading or the address heading.
PageIsLeft ==
    \/ Len(cells) = 0
    \/ ~PageHasHeadingText("APPLICATION")
    \/ ~PageHasHeadingText("ADDRESS")

\* C2: a page with no rows, or without the application-number heading or
\* the address heading, adds no record and raises no exception; the records
\* of the earlier pages stay as they are and the next page of the document,
\* if there is one, is parsed next.
C2_LeftPageAddsNothing ==
    [][(pc = "processPage" /\ PageIsLeft)
         => /\ error' = "none"
            /\ developmentApplications' = developmentApplications
            /\ IF pageIndex < Len(CurrentDocument)
               THEN pc' = "getPage" /\ pageIndex' = pageIndex + 1
                    /\ documentIndex' = documentIndex
               ELSE pc' \in {"insert", "request", "done"}]_vars

\* A page without rows was left after a page that gave a record, and the
\* page after it is about to be parsed.
C2_Witness ==
    /\ pc = "getPage"
    /\ pageIndex = 3
    /\ cells = <<>>
    /\ rows = <<>>
    /\ Len(developmentApplications) = 1

\* C3: when the fetch or the opening of a selected document fails and
\* another selected document is left, the run goes on with that document.
C3_DocumentFailureIsLocal ==
    [][(RequestPdfFails \/ GetDocumentFails)
         => (documentIndex < Len(selectedPdfUrls)
               => pc' = "request" /\ documentIndex' = documentIndex + 1)]_vars

\* C4: when insertRow fails for a record, insertRow is attempted for the
\* record after it, and the documents after it are still parsed.
C4_InsertFailureIsLocal ==
    [][InsertRowFails
         => /\ recordIndex < Len(developmentApplications)
                 => pc' = "insert" /\ recordIndex' = recordIndex + 1
            /\ (recordIndex >= Len(developmentApplications)
                  /\ documentIndex < Len(selectedPdfUrls))
                 => pc' = "request" /\ documentIndex' = documentIndex + 1]_vars


\* No two rows of the table have the same council_reference.
IsUnique(table) ==
    \A i, j \in 1..Len(table) :
        table[i].council_reference = table[j].council_reference => i = j

\* The table holds a row with the application number.
Stored(table, applicationNumber) ==
    \E i \in 1..Len(table) : table[i].council_reference = applicationNumber

\* The application number of the record main is about to insert.
CurrentKey == developmentApplications[recordIndex].applicationNumber

\* C5: the table holds at most one row per application number; an insertRow
\* of a number that is stored succeeds and adds no row, an insertRow of a
\* number that is not stored adds one row.
C5_OneRowPerApplicationNumber ==
    [][InsertRow
         => /\ error' = "none"
            /\ IsUnique(database')
            /\ Stored(database', CurrentKey)
            /\ Len(database') = IF Stored(database, CurrentKey)
                                THEN Len(database) ELSE Len(database) + 1]_vars

\* The first record of a document had the number of the row of the earlier
\* run and was inserted: the table still holds one row.
C5_Witness ==
    /\ pc = "insert"
    /\ recordIndex = 2
    /\ Len(database) = 1
    /\ database[1].council_reference = developmentApplications[1].applicationNumber

\* C6: an insertRow of an application number that is stored changes no
\* stored row (the first write wins).
C6_FirstWriteWins ==
    [][(InsertRow /\ Stored(database, CurrentKey)) => database' = database]_vars

\* C7: every record of parsePdf has an application number that matches the
\* pattern of the layout and an address that is not empty.
C7_RecordsHaveMandatoryFields ==
    \A i \in 1..Len(developmentApplications) :
        /\ TestApplicationNumber(layout, developmentApplications[i].applicationNumber)
        /\ developmentApplications[i].address # <<>>

\* A page of three rows, one of them with a text that is no application
\* number, gave one record.
C7_Witness ==
    /\ pc = "getPage"
    /\ pageIndex = 2
    /\ Len(rows) = 3
    /\ Len(developmentApplications) = 1
    /\ developmentApplications[1].address # <<>>

\* C8: the received date of every record is the empty string or an ISO
\* date (YYYY-MM-DD).
C8_ReceivedDateEmptyOrIso ==
    layout # "js"
      => \A i \in 1..Len(developmentApplications) :
             \/ developmentApplications[i].receivedDate = <<>>
             \/ IsIsoDate(developmentApplications[i].receivedDate)

\* The row loop is at a row that has a cell under the application-number
\* heading, and the text of the cell is the given one.
AtRowWithNumber(text) ==
    /\ pc = "row"
    /\ RowCell(rows[rowIndex], headingCells.applicationNumberCell) # 0
    /\ AlignedText(rows[rowIndex], headingCells.applicationNumberCell) = text

\* C9: the pattern of the older layouts accepts "141/17" and, as it is not
\* anchored, "12/34/18" too, and rejects "ASSESS"; the pattern of the newer
\* layout accepts "12/34/18" and rejects "ASSESS".
C9_PatternPerGeneration ==
    /\ AtRowWithNumber(T_141_17) /\ layout # "js"
         => TestApplicationNumber(layout, T_141_17)
    /\ AtRowWithNumber(T_12_34_18) => TestApplicationNumber(layout, T_12_34_18)
    /\ AtRowWithNumber(ASSESS) => ~TestApplicationNumber(layout, ASSESS)
    /\ \A i \in 1..Len(developmentApplications) :
           developmentApplications[i].applicationNumber # ASSESS

\* The older layout emitted the record of the row numbered "12/34/18".
C9_Witness ==
    /\ layout = "ts"
    /\ \E i \in 1..Len(developmentApplications) :
           developmentApplications[i].applicationNumber = T_12_34_18

\* C9 as stated: the pattern of the older layouts rejects "12/34/18".
C9_OlderPatternRejectsThreeSegments ==
    (AtRowWithNumber(T_12_34_18) /\ layout # "js")
      => ~TestApplicationNumber(layout, T_12_34_18)

\* The page loop has done everything it does with the current page.
PageFullyParsed ==
    \/ pc = "processPage" /\ PageIsLeft
    \/ pc = "row" /\ rowIndex = Len(rows)

\* parsePdf has done everything it does with the current document.
DocumentFullyParsed ==
    \/ pageIndex = Len(CurrentDocument) /\ PageFullyParsed
    \/ /\ pageIndex = Len(CurrentDocument)
       /\ pc = "insert"
       /\ recordIndex = Len(developmentApplications)

\* C10: the stages of a page follow each other, page k+1 is not begun
\* before page k is fully parsed, and the next document is not requested
\* before the current one is fully parsed (and its records inserted).
C10_StrictlySequential ==
    [][/\ pc' = "parseCells" => pc = "getPage"
       /\ pc' = "parseElements" => pc = "parseCells"
       /\ pc' = "processPage" => pc = "parseElements"
       /\ (pc' = "row" /\ pc # "row") => pc = "processPage"
       /\ (pageIndex >= 1 /\ pageIndex' # pageIndex /\ pageIndex' # 0)
            => pageIndex' = pageIndex + 1 /\ PageFullyParsed
       /\ (documentIndex >= 1 /\ documentIndex' # documentIndex)
            => /\ documentIndex' = documentIndex + 1
               /\ pc' = "request"
               /\ DocumentFullyParsed]_vars

\* The second page of the second document is about to be parsed.
C10_Witness ==
    /\ documentIndex = 2
    /\ pc = "getPage"
    /\ pageIndex = 2


---------------------------------------------------------------------------
(* The rectangle functions applied on their own to every pair of           *)
(* rectangles of a small integer range.                                    *)

\* The largest co-ordinate and the largest width or height of a rectangle.
MaxCoordinate == 2

MaxExtent == 2

\* Widths and heights may be negative: nothing in the code forbids it.
Rectangles ==
    [x : 0..MaxCoordinate, y : 0..MaxCoordinate,
     width : (-1)..MaxExtent, height : (-1)..MaxExtent]

\* The variables of a run of main, which is not started.
runVars == << database, pc, error, pdfUrls, selectedPdfUrls, documentIndex,
              pageIndex, cells, elements, rows, headingCells, rowIndex,
              developmentApplications, recordIndex >>

NoRun ==
    /\ database = <<>>
    /\ pc = "probe"
    /\ error = "none"
    /\ pdfUrls = <<>>
    /\ selectedPdfUrls = <<>>
    /\ documentIndex = 0
    /\ pageIndex = 0
    /\ cells = <<>>
    /\ elements = <<>>
    /\ rows = <<>>
    /\ headingCells = undefined
    /\ rowIndex = 0
    /\ developmentApplications = <<>>
    /\ recordIndex = 0

InitGeometry ==
    /\ NoRun
    /\ layout = "ts"
    /\ \E rectangle1 \in Rectangles, rectangle2 \in Rectangles :
           probe = [stage |-> "rectangles",
                    rectangle1 |-> rectangle1, rectangle2 |-> rectangle2]

\* The functions are called with the two rectangles.
MeasureRectangles ==
    /\ probe # undefined
    /\ probe.stage = "rectangles"
    /\ probe' = [stage |-> "measured",
                 rectangle1 |-> probe.rectangle1,
                 rectangle2 |-> probe.rectangle2,
                 intersection |-> intersect(probe.rectangle1, probe.rectangle2),
                 reversed |-> intersect(probe.rectangle2, probe.rectangle1),
                 self |-> intersect(probe.rectangle1, probe.rectangle1),
                 area |-> getArea(probe.rectangle1),
                 percentage |-> getPercentageOfElementInCell(probe.rectangle1,
                                                             probe.rectangle2),
                 contained |-> contains(probe.rectangle1, probe.rectangle2)]
    /\ UNCHANGED << layout, runVars >>

NextGeometry == MeasureRectangles

SpecGeometry == InitGeometry /\ [][NextGeometry]_vars

\* The unit squares of the plane a rectangle covers.
Squares(rectangle) ==
    {<<i, j>> : i \in rectangle.x..(rectangle.x + rectangle.width - 1),
                j \in rectangle.y..(rectangle.y + rectangle.height - 1)}

NonNegative(rectangle) == rectangle.width >= 0 /\ rectangle.height >= 0

\* The two rectangles share no region of positive area.
Disjoint(rectangle1, rectangle2) == Squares(rectangle1) \cap Squares(rectangle2) = {}

\* A gap, or at least no common point, separates the rectangles on an axis.
Apart(rectangle1, rectangle2) ==
    \/ rectangle1.x + rectangle1.width < rectangle2.x
    \/ rectangle2.x + rectangle2.width < rectangle1.x
    \/ rectangle1.y + rectangle1.height < rectangle2.y
    \/ rectangle2.y + rectangle2.height < rectangle1.y

ZeroRectangle == [x |-> 0, y |-> 0, width |-> 0, height |-> 0]

\* The functions were applied to two disjoint rectangles of non-negative
\* width and height.
MeasuredDisjoint ==
    /\ probe # undefined
    /\ probe.stage = "measured"
    /\ NonNegative(probe.rectangle1) /\ NonNegative(probe.rectangle2)
    /\ Disjoint(probe.rectangle1, probe.rectangle2)

\* C11: for disjoint rectangles of non-negative width and height the
\* intersection has no area and the percentage of the one in the other is
\* 0; the intersection is the zero-rectangle when the rectangles are apart,
\* and a rectangle without width or without height when they only touch.
C11_DisjointHaveNoArea ==
    MeasuredDisjoint
      => /\ getArea(probe.intersection) = 0
         /\ NonNegative(probe.intersection)
         /\ probe.percentage[1] = 0
         /\ Apart(probe.rectangle1, probe.rectangle2)
              => probe.intersection = ZeroRectangle

\* Two squares that touch along an edge were intersected.
C11_Witness ==
    /\ MeasuredDisjoint
    /\ probe.rectangle1 = [x |-> 0, y |-> 0, width |-> 1, height |-> 1]
    /\ probe.rectangle2 = [x |-> 1, y |-> 0, width |-> 1, height |-> 1]
    /\ probe.intersection = [x |-> 1, y |-> 0, width |-> 0, height |-> 1]

\* C11 as stated: the intersection of disjoint rectangles, touching ones
\* included, is the zero-rectangle.
C11_DisjointGiveZeroRectangle ==
    MeasuredDisjoint
      => probe.intersection = ZeroRectangle /\ probe.percentage[1] = 0


Measured == probe # undefined /\ probe.stage = "measured"

\* C12: the area of the intersection does not depend on the order of the
\* two rectangles, and the intersection of a rectangle of non-negative
\* width and height with itself has the area of the rectangle.
C12_IntersectionAreas ==
    Measured
      => /\ getArea(probe.intersection) = getArea(probe.reversed)
         /\ NonNegative(probe.rectangle1) => getArea(probe.self) = probe.area

\* Two overlapping rectangles of different size were intersected both ways.
C12_Witness ==
    /\ Measured
    /\ probe.rectangle1 = [x |-> 0, y |-> 0, width |-> 2, height |-> 2]
    /\ probe.rectangle2 = [x |-> 1, y |-> 1, width |-> 2, height |-> 1]
    /\ getArea(probe.reversed) = 1
    /\ getArea(probe.self) = 4

\* C12 as stated: the intersection of every rectangle with itself has the
\* area of the rectangle.
C12_SelfIntersectionHasTheArea ==
    Measured => getArea(probe.self) = probe.area

\* The first rectangle has no negative extent, the second has an area.
MeasuredContainment ==
    /\ Measured
    /\ NonNegative(probe.rectangle1)
    /\ probe.rectangle2.width > 0 /\ probe.rectangle2.height > 0

\* C13: contains(outer, inner) is containment with the edges included: for
\* an inner rectangle with an area it is true exactly when every unit
\* square of inner is one of outer, and so a rectangle contains itself.
C13_ContainsIncludesEdges ==
    /\ MeasuredContainment
         => (probe.contained
               <=> Squares(probe.rectangle2) \subseteq Squares(probe.rectangle1))
    /\ (Measured /\ probe.rectangle1 = probe.rectangle2) => probe.contained

\* A rectangle was found to contain a rectangle that shares its left and
\* top edges.
C13_Witness ==
    /\ MeasuredContainment
    /\ probe.rectangle1 = [x |-> 0, y |-> 0, width |-> 2, height |-> 2]
    /\ probe.rectangle2 = [x |-> 0, y |-> 0, width |-> 1, height |-> 1]
    /\ probe.contained

\* C13 as stated: contains is true only for an inner rectangle whose four
\* edges lie strictly inside the edges of outer.
C13_ContainsIsStrict ==
    (Measured /\ probe.contained)
      => /\ probe.rectangle1.x < probe.rectangle2.x
         /\ probe.rectangle1.y < probe.rectangle2.y
         /\ probe.rectangle1.x + probe.rectangle1.width
              > probe.rectangle2.x + probe.rectangle2.width
         /\ probe.rectangle1.y + probe.rectangle1.height
              > probe.rectangle2.y + probe.rectangle2.height

---------------------------------------------------------------------------
(* parseCells applied on its own to operator lists made of a few pieces:   *)
(* the walk goes one operator at a time, then the lines are sorted into    *)
(* the horizontal and the vertical ones and the cells are built.           *)

MaxGroups == 4

\* The argument of the transform operators: a shift to the left and down.
Translation == <<1, 0, 0, 1, -100, -100>>

RectanglePath(x, y, width, height) ==
    [fn |-> "constructPath", args |-> << <<"rectangle">>, <<x, y, width, height>> >>]

\* The pieces: save, restore, transform, a thin wide rectangle that is
\* constructed and not filled, a fill, and three filled rectangles: a thin
\* tall one, a wide one eight units thick and a wide one of negative height.
OperatorGroups ==
    { << [fn |-> "save", args |-> <<>>] >>,
      << [fn |-> "restore", args |-> <<>>] >>,
      << [fn |-> "transform", args |-> Translation] >>,
      << RectanglePath(0, 100, 300, 1) >>,
      << [fn |-> "fill", args |-> <<>>] >>,
      FilledRectangle(0, 0, 1, 300),
      FilledRectangle(0, 0, 300, 8),
      FilledRectangle(0, 300, 300, -50) }

\* The operator lists of at most maxGroups pieces.
OperatorLists(maxGroups) ==
    UNION { { Flatten(groups) : groups \in [1..n -> OperatorGroups] } : n \in 0..maxGroups }

\* The state of the operator loop before the first operator.
WalkStart ==
    [lines |-> <<>>, previousRectangle |-> undefined,
     transformStack |-> <<IdentityTransform>>, transform |-> IdentityTransform,
     failed |-> FALSE]

\* One turn of the operator loop, by layout: the later layout takes every
\* constructPath for a line and looks at nothing else.
WalkedState(operator, st) ==
    IF layout = "js" THEN [st EXCEPT !.lines = @ \o ConstructedLines(<<operator>>)]
    ELSE WalkStep(layout, operator, st)

\* All the rectangles of one constructPath under the transform, whether or
\* not the loop remembers them.
RECURSIVE RectanglesOfPath(_, _, _, _, _)
RectanglesOfPath(ops, coords, operationIndex, argumentIndex, transform) ==
    IF operationIndex > Len(ops) THEN <<>>
    ELSE IF ops[operationIndex] = "rectangle"
    THEN << TransformedRectangle(coords, argumentIndex, transform) >>
         \o RectanglesOfPath(ops, coords, operationIndex + 1, argumentIndex + 4, transform)
    ELSE RectanglesOfPath(ops, coords, operationIndex + 1, argumentIndex + 2, transform)

\* The rectangles constructed and not yet followed by a fill, after the operator.
PendingAfter(operator, pending, transform) ==
    IF operator.fn = "constructPath" /\ transform # UndefinedTransform
    THEN pending \o RectanglesOfPath(operator.args[1], operator.args[2], 1, 0, transform)
    ELSE IF operator.fn \in FillOperators(layout) THEN <<>>
    ELSE pending

\* The rectangles a fill has followed, after the operator.
FilledAfter(operator, filled, pending) ==
    IF operator.fn \in FillOperators(layout) THEN filled \o pending ELSE filled

\* A page of a heading row and one row under it, whose first text run has
\* the given text, transform and declared width.
ItemTexts ==
    { <<"A">>, <<"A", " ", " ", " ", "B">>,
      <<"A", " ", " ", " ", "B", " ", " ", " ", "C">> }

ItemTransforms ==
    { <<10, 0, 0, 10, 10, 60>>, <<10, 0, 0, 10, -20, 60>>,
      <<10, 0, 0, -10, 10, 60>>, <<0, 10, -10, 0, 10, 60>> }

ItemWidths == {0, 50, 150, 250}

PageOfItem(str, transform, width) ==
    LET page == TablePage(layout,
                    << << <<IF layout = "js" THEN ASSESS ELSE RECEIPT>>,
                          <<APPLICATION>>, <<PROPERTY_ADDRESS>> >>,
                       << <<str>>, <<>>, <<>> >> >>, FALSE)
    IN [page EXCEPT !.items[4] = [str |-> str, transform |-> transform, width |-> width]]

InitCells ==
    /\ NoRun
    /\ layout \in {"ts", "p0", "js"}
    /\ \/ \E operators \in OperatorLists(MaxGroups) :
             probe = [stage |-> "walk", operators |-> operators, index |-> 1,
                      walk |-> WalkStart, history |-> <<>>, pending |-> <<>>,
                      filled |-> <<>>]
       \/ \E str \in ItemTexts, transform \in ItemTransforms, width \in ItemWidths :
             probe = [stage |-> "page", page |-> PageOfItem(str, transform, width)]

\* The loop takes the next operator.  history keeps the transform that was
\* current before each operator; pending and filled keep the rectangles
\* constructed so far, apart from what the loop itself remembers.
WalkOperator ==
    /\ probe # undefined /\ probe.stage = "walk"
    /\ probe.index <= Len(probe.operators) /\ ~probe.walk.failed
    /\ probe' = [probe EXCEPT
           !.index = @ + 1,
           !.walk = WalkedState(probe.operators[probe.index], probe.walk),
           !.history = Append(@, probe.walk.transform),
           !.pending = PendingAfter(probe.operators[probe.index], @, probe.walk.transform),
           !.filled = FilledAfter(probe.operators[probe.index], @, probe.pending)]
    /\ UNCHANGED << layout, runVars >>

\* The lines of the later layout that become grid points.
PointLines(lines) == SelectSeq(lines, LAMBDA line : ~IsIgnoredLine(line))

\* After the loop: the horizontal and the vertical lines, and the cells.
FindCells ==
    /\ probe # undefined /\ probe.stage = "walk"
    /\ probe.index > Len(probe.operators) \/ probe.walk.failed
    /\ probe' =
         [stage |-> "cells", operators |-> probe.operators,
          lines |-> probe.walk.lines, failed |-> probe.walk.failed,
          horizontalLines |->
              IF layout = "js"
              THEN SelectSeq(PointLines(probe.walk.lines), LAMBDA line : line.height <= 2)
              ELSE HorizontalLines(layout, probe.walk.lines),
          verticalLines |->
              IF layout = "js"
              THEN SelectSeq(PointLines(probe.walk.lines), LAMBDA line : ~(line.height <= 2))
              ELSE VerticalLines(layout, probe.walk.lines),
          cells |-> parseCells(layout, [operators |-> probe.operators]).cells]
    /\ UNCHANGED << layout, runVars >>

\* The page loop of parsePdf on the page, up to the row loop.
ProcessItemPage ==
    /\ probe # undefined /\ probe.stage = "page"
    /\ probe' = [stage |-> "rows", page |-> probe.page,
                 parsedCells |-> parseCells(layout, probe.page).cells,
                 parsedElements |-> parseElements(layout, probe.page),
                 processed |-> ProcessedPage(layout,
                                   parseCells(layout, probe.page).cells,
                                   parseElements(layout, probe.page))]
    /\ UNCHANGED << layout, runVars >>

NextCells == WalkOperator \/ FindCells \/ ProcessItemPage

SpecCells == InitCells /\ [][NextCells]_vars

\* The rectangle has no negative extent.
HasExtent(rectangle) == rectangle.width >= 0 /\ rectangle.height >= 0

AllHaveExtent(rectangles) == \A i \in 1..Len(rectangles) : HasExtent(rectangles[i])

\* C14: every cell and every text element that the area, overlap and
\* containment calculations are given has a width and a height of zero or
\* more: the cells built from any operator list, the elements made of text
\* runs of non-negative declared width, the cells and elements of the rows,
\* and the elements made up when an overhanging element is split.
C14_ExtentsAreNotNegative ==
    /\ probe.stage = "cells" => AllHaveExtent(probe.cells)
    /\ probe.stage = "rows" =>
          /\ AllHaveExtent(probe.parsedCells)
          /\ AllHaveExtent(probe.parsedElements)
          /\ AllHaveExtent(probe.processed.cells)
          /\ AllHaveExtent(probe.processed.elements)
          /\ \A r \in 1..Len(probe.processed.rows) :
                \A c \in 1..Len(probe.processed.rows[r]) :
                   /\ HasExtent(probe.processed.rows[r][c])
                   /\ AllHaveExtent(probe.processed.rows[r][c].elements)

\* An overhanging element was split and its second token went to the next
\* cell as a made-up element.
C14_Witness ==
    /\ probe.stage = "rows" /\ layout = "js"
    /\ Len(probe.processed.rows) = 2
    /\ \E i \in 1..Len(probe.processed.rows[2][2].elements) :
          probe.processed.rows[2][2].elements[i].text = <<"B">>

\* Cells came out of an operator list whose lines were not drawn in order.
C14_CellsOfUnorderedLines ==
    /\ probe.stage = "cells" /\ Len(probe.cells) > 0
    /\ \E i \in 1..Len(probe.verticalLines) : \E j \in 1..Len(probe.verticalLines) :
          i < j /\ probe.verticalLines[i].x > probe.verticalLines[j].x

\* C18: in the earlier layouts the candidate lines are the rectangles that a
\* fill followed, every one of them (also when several were constructed
\* before that fill), and nothing else: a rectangle no fill has followed is
\* not a line, and a fill with no rectangle before it adds nothing.
C18_EveryFilledRectangleIsALine ==
    (probe.stage = "walk" /\ layout # "js") => probe.walk.lines = probe.filled

\* The saves less the restores among the first n operators.
RECURSIVE Depth(_, _)
Depth(operators, n) ==
    IF n = 0 THEN 0
    ELSE Depth(operators, n - 1)
         + (IF operators[n].fn = "save" THEN 1
            ELSE IF operators[n].fn = "restore" THEN -1 ELSE 0)

\* Every restore among the first n operators has a matching earlier save.
Balanced(operators, n) == \A k \in 0..n : Depth(operators, k) >= 0

\* The save that the restore at index i matches.
MatchingSave(operators, i) ==
    CHOOSE j \in 1..(i - 1) :
        /\ operators[j].fn = "save"
        /\ Depth(operators, j - 1) = Depth(operators, i)
        /\ \A k \in (j + 1)..(i - 1) :
              ~(operators[k].fn = "save" /\ Depth(operators, k - 1) = Depth(operators, i))

\* The current transform once the operator at index i was taken.
TransformAfter(i) ==
    IF i < Len(probe.history) THEN probe.history[i + 1] ELSE probe.walk.transform

HasRectangle(operator) ==
    operator.fn = "constructPath"
      /\ \E k \in 1..Len(operator.args[1]) : operator.args[1][k] = "rectangle"

\* C19: in the earlier layouts the transform is the identity before the
\* first operator, and as long as every restore has a matching earlier
\* save, the transform after a restore is the transform that was current at
\* its matching save, and the transform is defined whenever a rectangle is
\* transformed.
C19_RestoreGivesTheSavedTransform ==
    (probe.stage = "walk" /\ layout # "js") =>
        /\ probe.index = 1 => probe.walk.transform = IdentityTransform
        /\ \A i \in 1..(probe.index - 1) :
              Balanced(probe.operators, i) =>
                 /\ probe.operators[i].fn = "restore" =>
                       TransformAfter(i) =
                           probe.history[MatchingSave(probe.operators, i)]
                 /\ HasRectangle(probe.operators[i]) =>
                       probe.history[i] # UndefinedTransform
        /\ Balanced(probe.operators, probe.index - 1) => ~probe.walk.failed

\* A restore brought back a transform that was saved after an earlier
\* transform and changed after the save.
C19_Witness ==
    /\ probe.stage = "walk" /\ layout # "js"
    /\ \E i \in 1..(probe.index - 1) :
          /\ Balanced(probe.operators, i)
          /\ probe.operators[i].fn = "restore"
          /\ probe.history[i] # TransformAfter(i)
          /\ TransformAfter(i) # IdentityTransform
          /\ TransformAfter(i) = probe.history[MatchingSave(probe.operators, i)]

\* The magnitude of an extent.
IsThin(extent) == Abs(extent) <= 2

IsLong(extent) == Abs(extent) >= 10

\* C20: every rectangle among the horizontal lines is thin in height and
\* long in width, and every rectangle among the vertical lines is thin in
\* width and long in height (in the later layout: every line that becomes
\* grid points), whatever rectangles were filled.
C20_LinesAreSegments ==
    probe.stage = "cells" =>
        /\ \A i \in 1..Len(probe.horizontalLines) :
              /\ IsThin(probe.horizontalLines[i].height)
              /\ IsLong(probe.horizontalLines[i].width)
        /\ \A i \in 1..Len(probe.verticalLines) :
              /\ IsThin(probe.verticalLines[i].width)
              /\ IsLong(probe.verticalLines[i].height)

---------------------------------------------------------------------------
(* The body of the row loop applied on its own to rows that have a lot     *)
(* cell and a section cell, in the two layouts that have these columns.    *)

\* What a lot cell or a section cell holds, and the hundred line of the
\* address cell.
CellSources == {"absent", "empty", "dash", "text"}

HundredSources == {"none", "HD", "HUNDRED"}

LOT_TEXT == <<"7">>

SECTION_TEXT == <<"8">>

\* A cell of the row, or of the heading row, in the column that begins at x.
ColumnBox(x, y) == [x |-> x, y |-> y, width |-> 100, height |-> 100]

ColumnElement(text, x) == [text |-> text, x |-> x + 10, y |-> 130, width |-> 50, height |-> 10]

ColumnCell(x, texts) ==
    [elements |-> [i \in 1..Len(texts) |-> ColumnElement(texts[i], x)],
     x |-> x, y |-> 100, width |-> 100, height |-> 100]

SourceTexts(source, text) ==
    IF source = "dash" THEN <<DASH>> ELSE IF source = "text" THEN <<text>> ELSE <<>>

HundredTexts(source) ==
    IF source = "HD" THEN <<HD_ \o GRANT>>
    ELSE IF source = "HUNDRED" THEN <<HUNDRED_ \o GRANT>>
    ELSE <<>>

\* The row: application number, lot, section and address, without the
\* cells that are absent.
LegalRow(lot, section, hundred) ==
    << ColumnCell(0, <<Number(layout, 1)>>) >>
    \o (IF lot = "absent" THEN <<>> ELSE << ColumnCell(100, SourceTexts(lot, LOT_TEXT)) >>)
    \o (IF section = "absent" THEN <<>>
        ELSE << ColumnCell(200, SourceTexts(section, SECTION_TEXT)) >>)
    \o << ColumnCell(300, <<T_1_SMITH_ST, GRANT>> \o HundredTexts(hundred)) >>

LegalHeadingCells ==
    [applicationNumberCell |-> ColumnBox(0, 0), receivedDateCell |-> undefined,
     houseNumberCell |-> undefined, lotCell |-> ColumnBox(100, 0),
     sectionCell |-> ColumnBox(200, 0), addressCell |-> ColumnBox(300, 0),
     descriptionCell |-> undefined]

InitLegal ==
    /\ NoRun
    /\ layout \in {"ts", "p0"}
    /\ \E lot \in CellSources, section \in CellSources, hundred \in HundredSources :
          probe = [stage |-> "row", lot |-> lot, section |-> section,
                   hundred |-> hundred, row |-> LegalRow(lot, section, hundred)]

\* The body of the row loop takes the row.
ExtractLegalRow ==
    /\ probe # undefined /\ probe.stage = "row"
    /\ probe' = [stage |-> "extracted", lot |-> probe.lot, section |-> probe.section,
                 hundred |-> probe.hundred,
                 result |-> ExtractRow(layout, probe.row, LegalHeadingCells, <<"u">>)]
    /\ UNCHANGED << layout, runVars >>

NextLegal == ExtractLegalRow

SpecLegal == InitLegal /\ [][NextLegal]_vars

\* The legal description made of the components whose own source has a text.
LegalOfSources(lot, section, hundred) ==
    join((IF lot = "text" THEN <<LOT_ \o LOT_TEXT>> ELSE <<>>)
         \o (IF section = "text" THEN <<SECTION_ \o SECTION_TEXT>> ELSE <<>>)
         \o (IF hundred # "none" THEN <<Hundred_ \o GRANT>> ELSE <<>>),
         COMMA_SPACE)

\* C15: the legal description of the record of a row is "Lot", "Section"
\* and "Hundred", comma-joined in this order, each one there exactly when
\* its own source (the lot cell, the section cell, the hundred line of the
\* address cell) is present, not empty and not a dash; a missing source
\* makes no failure.
C15_LegalDescriptionOfOwnSources ==
    probe.stage = "extracted" =>
        /\ probe.result.outcome = "emit"
        /\ probe.result.record.legalDescription
             = LegalOfSources(probe.lot, probe.section, probe.hundred)

---------------------------------------------------------------------------
(* formatAddress of src/unnamed/part_000 applied on its own to addresses   *)
(* made of a few tokens.                                                   *)

MaxTrailing == 3

T_LOT_1 == <<"L","O","T"," ","1">>

T_1_JONES_ST == <<"1"," ","J","O","N","E","S"," ","S","T">>

T_PADDOCK == <<"P","A","D","D","O","C","K">>

\* "123 SMITH ST, HD GRANT, GRANT"
T_EXAMPLE ==
    <<"1","2","3"," ","S","M","I","T","H"," ","S","T",","," ","H","D"," ",
      "G","R","A","N","T",","," ","G","R","A","N","T">>

\* "123 SMITH STREET, GRANT SA 5291"
T_EXAMPLE_FORMATTED == <<"1","2","3"," ">> \o SMITH_STREET \o COMMA_SPACE \o GRANT_SA

PrefixTokens == { <<>>, <<T_LOT_1>> }

StreetTokens == { T_1_SMITH_ST, T_1_JONES_ST, T_PADDOCK }

\* What follows the street: a suburb (that is no hundred), hundreds with
\* and without "HD " (that are no suburbs), and a street.
TrailingTokens == { YAHL, HD_ \o YOUNG, BLANCHE, T_1_JONES_ST }

\* The addresses: at most one token before the street token, and at most
\* maxTrailing after it.
Addresses(maxTrailing) ==
    { join(prefix \o <<street>> \o trailing, COMMA_SPACE) :
         prefix \in PrefixTokens, street \in StreetTokens,
         trailing \in UNION { [1..n -> TrailingTokens] : n \in 0..maxTrailing } }
    \cup { T_EXAMPLE }

InitAddress ==
    /\ NoRun
    /\ layout = "p0"
    /\ \E address \in Addresses(MaxTrailing) : probe = [stage |-> "address", address |-> address]

\* formatAddress with its local variables: the tokens, the street found
\* and the suburb chosen (undefined if no street is found).
FormattedWithStreet(address, tokens, street) ==
    [stage |-> "formatted", address |-> address, tokens |-> tokens, street |-> street,
     suburbName |-> IF street = undefined THEN undefined
                    ELSE ChooseSuburb(tokens, street.streetNameIndex,
                                      street.formattedStreet.suburbNames),
     result |-> formatAddress_p0(address)]

FormattedWithTokens(address, tokens) ==
    FormattedWithStreet(address, tokens, FindStreet(tokens))

FormatAddress ==
    /\ probe # undefined /\ probe.stage = "address"
    /\ probe' = FormattedWithTokens(probe.address,
                                    split(ExpandTerraces(probe.address), COMMA))
    /\ UNCHANGED << layout, runVars >>

NextAddress == FormatAddress

SpecAddress == InitAddress /\ [][NextAddress]_vars

\* A street was found 3 or 4 tokens from the end.
StreetFarFromEnd ==
    /\ probe.stage = "formatted" /\ probe.street # undefined
    /\ probe.street.streetNameIndex \in {3, 4}

\* The places in the suburb list of the street of the suburbs that belong
\* to every candidate list that is not empty.
Qualifying(suburbNames, candidates) ==
    { i \in 1..Len(suburbNames) :
         \A c \in 1..3 :
            candidates[c] = <<>>
              \/ \E j \in 1..Len(candidates[c]) : candidates[c][j] = suburbNames[i] }

FirstQualifying(suburbNames, candidates) ==
    IF Qualifying(suburbNames, candidates) = {} THEN suburbNames[1]
    ELSE suburbNames[CHOOSE i \in Qualifying(suburbNames, candidates) :
                        \A j \in Qualifying(suburbNames, candidates) : i <= j]

\* C16: for a street found 3 or 4 tokens from the end, the suburb chosen is
\* the first suburb of the street that belongs to every candidate list that
\* is not empty (the hundred of the last token; the hundred or the suburb
\* of the token before it), or the first suburb of the street if there is
\* none; it is always one of the suburbs of the street.
C16_SuburbFromNonEmptyCandidates ==
    StreetFarFromEnd =>
        /\ probe.suburbName
             = FirstQualifying(probe.street.formattedStreet.suburbNames,
                               TrailingCandidates(probe.tokens))
        /\ \E i \in 1..Len(probe.street.formattedStreet.suburbNames) :
              probe.street.formattedStreet.suburbNames[i] = probe.suburbName

\* The suburb chosen is not the first one of the street: the last token
\* names a hundred and the token before it a suburb.
C16_Witness ==
    /\ StreetFarFromEnd
    /\ probe.suburbName # probe.street.formattedStreet.suburbNames[1]
    /\ TrailingCandidates(probe.tokens)[1] # <<>>
    /\ TrailingCandidates(probe.tokens)[3] # <<>>

\* The suburb chosen although one candidate list is empty.
C16_EmptyCandidatesIgnored ==
    /\ StreetFarFromEnd
    /\ probe.suburbName # probe.street.formattedStreet.suburbNames[1]
    /\ TrailingCandidates(probe.tokens)[1] # <<>>
    /\ TrailingCandidates(probe.tokens)[2] = <<>>
    /\ TrailingCandidates(probe.tokens)[3] = <<>>

\* The token k places from the end is a street.
Recognised(tokens, k) ==
    Len(tokens) >= k /\ formatStreet(tokens[Len(tokens) - k + 1]) # undefined

\* The first of the places 3, 2, 4 from the end that holds a street (0: none).
StreetPosition(tokens) ==
    IF Recognised(tokens, 3) THEN 3
    ELSE IF Recognised(tokens, 2) THEN 2
    ELSE IF Recognised(tokens, 4) THEN 4
    ELSE 0

\* The address made of the tokens before place k, the street of place k
\* and the full name of the suburb.
Reconstructed(tokens, k, suburbName) ==
    join(SubSeq(tokens, 1, Len(tokens) - k)
         \o << formatStreet(tokens[Len(tokens) - k + 1]).streetName,
               Get(SuburbNames, suburbName) >>,
         COMMA_SPACE)

\* C17: when a street is recognised at the first of the places 3, 2, 4 from
\* the end, the result is the tokens before it, the canonical street name
\* and the "Suburb STATE POSTCODE" text of the chosen suburb, joined by
\* ", ", and none of the tokens after it; "123 SMITH ST, HD GRANT, GRANT"
\* gives "123 SMITH STREET, GRANT SA 5291".
C17_ResultIsPrefixStreetSuburb ==
    probe.stage = "formatted" =>
        /\ StreetPosition(probe.tokens) # 0 =>
              /\ probe.result = Reconstructed(probe.tokens, StreetPosition(probe.tokens),
                                              probe.suburbName)
              /\ Len(split(probe.result, COMMA))
                   = Len(probe.tokens) - StreetPosition(probe.tokens) + 2
        /\ probe.address = T_EXAMPLE => probe.result = T_EXAMPLE_FORMATTED

\* A street three tokens from the end with a token before it, and another
\* street two tokens from the end.
C17_Witness ==
    /\ probe.stage = "formatted"
    /\ Len(probe.tokens) > 3
    /\ Recognised(probe.tokens, 3)
    /\ Recognised(probe.tokens, 2)
    /\ probe.result = Reconstructed(probe.tokens, 3, probe.suburbName)

---------------------------------------------------------------------------
(* parseCells of the later layout applied on its own to pages whose        *)
(* operator list draws a few lines of a small grid.                        *)

MaxLines == 3

\* The constructPath operator of a line: the later layout reads the
\* arguments as y, x, height, width.
LinePath(x, y, width, height) == RectanglePath(y, x, height, width)

\* Horizontal lines on the rows 0, 1 and 10, vertical lines on the columns
\* 0, 1 and 10, a thick rectangle and a short line.
GridLines ==
    { LinePath(x, y, width, 0) :
          x \in {0}, y \in {0, 1, 10}, width \in {10, 20} }
    \cup { LinePath(10, y, 10, 0) : y \in {0, 1, 10} }
    \cup { LinePath(x, y, 0, height) :
          x \in {0, 1, 10}, y \in {0}, height \in {10, 20} }
    \cup { LinePath(x, 10, 0, 10) : x \in {0, 1, 10} }
    \cup { LinePath(0, 0, 20, 20), LinePath(5, 5, 9, 0) }

\* The operator lists of at most maxLines lines.
LineLists(maxLines) == UNION { [1..n -> GridLines] : n \in 0..maxLines }

InitPoints ==
    /\ NoRun
    /\ layout = "js"
    /\ \E operators \in LineLists(MaxLines) :
           probe = [stage |-> "lines", operators |-> operators]

\* The lines are converted into the grid of points.
FindPoints ==
    /\ probe # undefined /\ probe.stage = "lines"
    /\ probe' = [stage |-> "points", operators |-> probe.operators,
                 points |-> GridPoints(ConstructedLines(probe.operators), <<>>)]
    /\ UNCHANGED << layout, runVars >>

\* The cells are constructed from the points, sorted and returned.
ConstructCells ==
    /\ probe # undefined /\ probe.stage = "points"
    /\ probe' = [stage |-> "cells", operators |-> probe.operators,
                 points |-> probe.points,
                 cells |-> parseCells(layout, [operators |-> probe.operators]).cells]
    /\ UNCHANGED << layout, runVars >>

\* Text elements by their bounding boxes: one inside the first cell of the
\* grid, one across two columns, one across two rows and two columns, and
\* one outside the grid.
ElementBox(text, x, y, width, height) ==
    [text |-> text, x |-> x, y |-> y, width |-> width, height |-> height]

ElementLists ==
    { << ElementBox(<<"A">>, 2, 2, 5, 5) >>,
      << ElementBox(<<"B">>, 5, 2, 10, 5) >>,
      << ElementBox(<<"C">>, 5, 5, 10, 10) >>,
      << ElementBox(<<"B">>, 5, 2, 10, 5), ElementBox(<<"D">>, 30, 30, 5, 5) >> }

\* parsePdf allocates each element of the page to its owning cell.
AllocatePageElements ==
    /\ probe # undefined /\ probe.stage = "cells"
    /\ \E pageElements \in ElementLists :
          probe' = [stage |-> "allocated", operators |-> probe.operators,
                    points |-> probe.points, parsedCells |-> probe.cells,
                    elements |-> pageElements,
                    cells |-> AllocateElements(layout, probe.cells, pageElements)]
    /\ UNCHANGED << layout, runVars >>

NextPoints == FindPoints \/ ConstructCells \/ AllocatePageElements

SpecPoints == InitPoints /\ [][NextPoints]_vars

\* The distances from p to the points strictly to its right in its row, and
\* to the points strictly below it in its column.
RightDistances(points, p) ==
    { points[i].x - p.x : i \in { j \in 1..Len(points) :
                                    points[j].x > p.x /\ Abs(points[j].y - p.y) < 1 } }

DownDistances(points, p) ==
    { points[i].y - p.y : i \in { j \in 1..Len(points) :
                                    points[j].y > p.y /\ Abs(points[j].x - p.x) < 1 } }

Least(distances) == CHOOSE d \in distances : \A e \in distances : d <= e

\* The cells whose origin is p.
CellsAt(p) == { k \in 1..Len(probe.cells) : probe.cells[k].x = p.x /\ probe.cells[k].y = p.y }

\* C21: a point gets a cell exactly when there is a point strictly to its
\* right in its row and a point strictly below it in its column; the cell
\* starts at the point and reaches the nearest of each.  So there is at most
\* one cell per point, and every cell has a positive width and height.
C21_CellPerCornerPoint ==
    probe.stage = "cells" =>
        /\ \A i \in 1..Len(probe.points) :
              LET p == probe.points[i]
                  right == RightDistances(probe.points, p)
                  down == DownDistances(probe.points, p)
              IN /\ (right # {} /\ down # {}) <=> CellsAt(p) # {}
                 /\ Cardinality(CellsAt(p)) <= 1
                 /\ \A k \in CellsAt(p) :
                       /\ probe.cells[k].width = Least(right)
                       /\ probe.cells[k].height = Least(down)
        /\ \A k \in 1..Len(probe.cells) :
              /\ \E i \in 1..Len(probe.points) : k \in CellsAt(probe.points[i])
              /\ probe.cells[k].width > 0 /\ probe.cells[k].height > 0

\* A cell whose nearest right point was added after a farther one, next to
\* a point that has no cell.
C21_Witness ==
    /\ probe.stage = "cells"
    /\ \E k \in 1..Len(probe.cells) : \E i, j \in 1..Len(probe.points) :
          /\ i < j
          /\ probe.points[i].y = probe.cells[k].y /\ probe.points[j].y = probe.cells[k].y
          /\ probe.points[j].x = probe.cells[k].x + probe.cells[k].width
          /\ probe.points[i].x > probe.points[j].x
    /\ \E i \in 1..Len(probe.points) : CellsAt(probe.points[i]) = {}

\* The cells that hold the element after the allocation, and the cells
\* that overlap it.
Holders(element) ==
    { k \in 1..Len(probe.cells) :
         \E e \in 1..Len(probe.cells[k].elements) : probe.cells[k].elements[e] = element }

Overlapping(element) ==
    { k \in 1..Len(probe.cells) : getArea(intersect(probe.cells[k], element)) > 0 }

\* C22: with the any-overlap rule every text element is in at most one
\* cell, and when some cell overlaps the element its owner is the leftmost
\* of the cells that overlap it: no overlapping cell has a smaller x.
C22_OwnerIsLeftmostOverlap ==
    probe.stage = "allocated" =>
        \A e \in 1..Len(probe.elements) :
            LET element == probe.elements[e]
            IN /\ Cardinality(Holders(element)) <= 1
               /\ Overlapping(element) # {} =>
                     /\ Holders(element) # {}
                     /\ \A k \in Holders(element) : \A c \in Overlapping(element) :
                           probe.cells[k].x <= probe.cells[c].x

\* Every element is in at most one cell, and has an owner when a cell overlaps it.
C22_AtMostOneOwner ==
    probe.stage = "allocated" =>
        \A e \in 1..Len(probe.elements) :
            /\ Cardinality(Holders(probe.elements[e])) <= 1
            /\ Overlapping(probe.elements[e]) # {} => Holders(probe.elements[e]) # {}

---------------------------------------------------------------------------
(* The page loop of parsePdf applied on its own to a page of a heading row *)
(* and one row under it, with a few more rules drawn over the table: some  *)
(* close to a rule of the table, some on top of one.                       *)

MaxRules == 3

\* The rules: horizontal ones at 1, 2, 3 and 100, vertical ones at 100 and 101.
ExtraRules ==
    [horizontal : {TRUE}, at : {1, 2, 3, 100}]
    \cup [horizontal : {FALSE}, at : {100, 101}]

\* The operators that draw a rule across the table, by layout.
RuleOperators(rule) ==
    IF layout = "js"
    THEN IF rule.horizontal
         THEN [j \in 1..3 |->
                  [fn |-> "constructPath",
                   args |-> << <<"rectangle">>, <<rule.at, (j - 1) * 100, 1, 100>> >>]]
         ELSE << [fn |-> "constructPath",
                  args |-> << <<"rectangle">>, <<0, rule.at, 200, 1>> >>] >>
    ELSE IF rule.horizontal THEN FilledRectangle(0, rule.at, 300, 1)
         ELSE FilledRectangle(rule.at, 0, 1, 200)

RulesPage(rules) ==
    LET page == TablePage(layout, <<HeadingRow(layout), RowValid(layout)>>, FALSE)
    IN [page EXCEPT !.operators =
           @ \o Flatten([i \in 1..Len(rules) |-> RuleOperators(rules[i])])]

RuleLists(maxRules) == UNION { [1..n -> ExtraRules] : n \in 0..maxRules }

\* Pages of the later layout without text, whose drawing is a few segments
\* ten units long on rows one unit apart, in any order: two that start at
\* the left on the rows 2 and 3, three that start further right on the rows
\* 0, 1 and 2, and a vertical one.
MaxSegments == 5

RowSegments ==
    { LinePath(0, 2, 10, 0), LinePath(0, 3, 10, 0), LinePath(10, 0, 10, 0),
      LinePath(10, 1, 10, 0), LinePath(10, 2, 10, 0), LinePath(0, 3, 0, 10) }

SegmentLists(maxSegments) == UNION { [1..n -> RowSegments] : n \in 0..maxSegments }

SegmentsPage(segments) == [operators |-> segments, items |-> <<>>, viewport |-> Viewport(1)]

InitRows ==
    /\ NoRun
    /\ \/ /\ layout \in {"ts", "p0", "js"}
          /\ \E rules \in RuleLists(MaxRules) :
                probe = [stage |-> "page", page |-> RulesPage(rules)]
       \/ /\ layout = "js"
          /\ \E segments \in SegmentLists(MaxSegments) :
                probe = [stage |-> "page", page |-> SegmentsPage(segments)]

NextRows == ProcessItemPage

SpecRows == InitRows /\ [][NextRows]_vars

\* How many times the cell is in the array, and in the rows.
TimesInCells(array, cell) == Cardinality({ i \in 1..Len(array) : array[i] = cell })

TimesInRows(pageRows, cell) ==
    Cardinality({ position \in (1..Len(pageRows)) \X (1..20) :
                     /\ position[2] <= Len(pageRows[position[1]])
                     /\ pageRows[position[1]][position[2]] = cell })

\* C23: after the grouping and the sorting every row has a cell, its cells
\* are in non-decreasing X order, the Y of each of its cells is less than 2
\* from the Y of its first cell, and every cell of the page is in exactly
\* one row.
C23_RowsAreSortedBands ==
    probe.stage = "rows" =>
        LET pageRows == probe.processed.rows
        IN /\ \A r \in 1..Len(pageRows) :
                 /\ Len(pageRows[r]) > 0
                 /\ \A k \in 1..(Len(pageRows[r]) - 1) : pageRows[r][k].x <= pageRows[r][k + 1].x
                 /\ \A k \in 1..Len(pageRows[r]) : Abs(pageRows[r][k].y - pageRows[r][1].y) < 2
           /\ \A i \in 1..Len(probe.processed.cells) :
                 TimesInRows(pageRows, probe.processed.cells[i])
                    = TimesInCells(probe.processed.cells, probe.processed.cells[i])
           /\ \A r \in 1..Len(pageRows) : \A k \in 1..Len(pageRows[r]) :
                 TimesInCells(probe.processed.cells, pageRows[r][k]) > 0

\* C24: after the sorting the rows go from top to bottom: the Y of the first
\* cell of a row, as the row stands once its cells are sorted by X, is not
\* more than the Y of the first cell of the next row.
C24_RowsTopToBottom ==
    probe.stage = "rows" =>
        \A r \in 1..(Len(probe.processed.rows) - 1) :
            probe.processed.rows[r][1].y <= probe.processed.rows[r + 1][1].y

\* The cell that started the row: the first of its cells in the cell order
\* of the page.
Starter(row) ==
    LET places == { i \in 1..Len(probe.processed.cells) :
                       \E k \in 1..Len(row) :
                          /\ probe.processed.cells[i].x = row[k].x
                          /\ probe.processed.cells[i].y = row[k].y }
    IN probe.processed.cells[CHOOSE i \in places : \A j \in places : i <= j]

\* C23 as amended: after the grouping and the sorting every row has a cell,
\* its cells are in non-decreasing X order, the Y of each of its cells is
\* less than 2 from the Y of the cell that started the row, and every cell
\* of the page is in exactly one row.
C23_RowsAreBandsOfTheirStarter ==
    probe.stage = "rows" =>
        LET pageRows == probe.processed.rows
        IN /\ \A r \in 1..Len(pageRows) :
                 /\ Len(pageRows[r]) > 0
                 /\ \A k \in 1..(Len(pageRows[r]) - 1) : pageRows[r][k].x <= pageRows[r][k + 1].x
                 /\ \A k \in 1..Len(pageRows[r]) :
                       Abs(pageRows[r][k].y - Starter(pageRows[r]).y) < 2
           /\ \A i \in 1..Len(probe.processed.cells) :
                 TimesInRows(pageRows, probe.processed.cells[i])
                    = TimesInCells(probe.processed.cells, probe.processed.cells[i])
           /\ \A r \in 1..Len(pageRows) : \A k \in 1..Len(pageRows[r]) :
                 TimesInCells(probe.processed.cells, pageRows[r][k]) > 0

\* A row of cells on two Y whose first cell is not the cell that started
\* it, on a page of more than one row.
C23_Witness ==
    /\ probe.stage = "rows"
    /\ Len(probe.processed.rows) > 1
    /\ \E r \in 1..Len(probe.processed.rows) :
          /\ Starter(probe.processed.rows[r]).x # probe.processed.rows[r][1].x
          /\ \E k \in 1..Len(probe.processed.rows[r]) :
                probe.processed.rows[r][k].y # probe.processed.rows[r][1].y

\* The rows were not started from top to bottom, and the first cell of one
\* of them is not the cell that started it.
C24_Witness ==
    /\ probe.stage = "rows"
    /\ LET grouped == GroupRows(probe.processed.cells, <<>>)
       IN /\ Len(grouped) > 1
          /\ sort(grouped, "rowComparer") # grouped
    /\ \E r \in 1..Len(probe.processed.rows) :
          Starter(probe.processed.rows[r]).y # probe.processed.rows[r][1].y

---------------------------------------------------------------------------
(* removeOverhangingElements applied on its own to a heading row and one   *)
(* row of three cells under it; a text run of one of the cells may reach   *)
(* over the next cells.                                                    *)

MaxTokens == 4

T_SMITH == <<"S","M","I","T","H">>

T_1234567 == <<"1","2","3","4","5","6","7">>

T_123_20 == <<"1","2","3","/","2","0">>

\* The k-th token of the run.
TokenText(k) ==
    IF k = 1 THEN T_SMITH ELSE IF k = 2 THEN T_1234567
    ELSE IF k = 3 THEN T_123_20 ELSE T_SHED

Spaces(n) == [i \in 1..n |-> " "]

\* The tokens from the first to the last, with gaps of so many spaces.
RunText(first, last, gap) == join([k \in 1..(last - first + 1) |-> TokenText(first + k - 1)], Spaces(gap))

\* The cell of a column in the heading line (1) or in the line under it (2).
TableCell(column, line, cellElements) ==
    [elements |-> cellElements, x |-> (column - 1) * 100, y |-> (line - 1) * 100,
     width |-> 100, height |-> 100]

\* The heading cell of a column as cells.find returns it, undefined for column 0.
FoundCell(column) ==
    IF column = 0 THEN undefined
    ELSE [x |-> (column - 1) * 100, y |-> 0, width |-> 100, height |-> 100]

\* The elements of the run: one text element, or the first token in one
\* element and the rest in a second; the last element is 150 wide in all
\* when it overhangs and ends inside the cell otherwise.
RunElements(column, count, gap, pieces, overhangs) ==
    LET left == (column - 1) * 100 + 10
        width == IF overhangs THEN 150 ELSE 50
    IN IF pieces = 1
       THEN << ElementBox(RunText(1, count, gap), left, 130, width, 10) >>
       ELSE << ElementBox(TokenText(1), left, 130, 30, 10),
               ElementBox(Spaces(gap) \o RunText(2, count, gap), left + 30, 130,
                          width - 30, 10) >>

\* The rows: the headings found, and a row whose cells all have a second
\* line of text of their own.
OverhangRows(column, count, gap, pieces, overhangs, found) ==
    << [c \in 1..3 |->
           TableCell(c, 1,
               IF found.assess = c THEN << ElementBox(ASSESS, (c - 1) * 100 + 10, 30, 50, 10) >>
               ELSE IF found.description = c
               THEN << ElementBox(DESCRIPTION, (c - 1) * 100 + 10, 30, 50, 10) >>
               ELSE IF found.decision = c
               THEN << ElementBox(DECISION, (c - 1) * 100 + 10, 30, 50, 10) >>
               ELSE <<>>)],
       [c \in 1..3 |->
           TableCell(c, 2,
               (IF c = column THEN RunElements(column, count, gap, pieces, overhangs)
                ELSE <<>>)
               \o << ElementBox(GRANT, (c - 1) * 100 + 10, 150, 50, 10) >>)] >>

\* The columns of the three headings, 0 for a heading that is not found.
FoundColumns ==
    { found \in [assess : 0..3, description : 0..3, decision : 0..3] :
         /\ found.assess # 0 => found.assess \notin {found.description, found.decision}
         /\ found.description # 0 => found.description # found.decision }

InitOverhang ==
    /\ NoRun
    /\ layout = "js"
    /\ \E column \in 1..3, count \in 1..MaxTokens, gap \in {3, 4, 6}, pieces \in 1..2,
          overhangs \in BOOLEAN, found \in FoundColumns :
          /\ pieces = 2 => count > 1
          /\ probe = [stage |-> "rows", column |-> column, count |-> count,
                      gap |-> gap, overhangs |-> overhangs, found |-> found,
                      rows |-> OverhangRows(column, count, gap, pieces, overhangs, found)]

\* parsePdf calls removeOverhangingElements with the rows and the heading cells.
RemoveOverhangs ==
    /\ probe # undefined /\ probe.stage = "rows"
    /\ probe' = [stage |-> "split", column |-> probe.column, count |-> probe.count,
                 gap |-> probe.gap, overhangs |-> probe.overhangs,
                 found |-> probe.found, rows |-> probe.rows,
                 result |-> removeOverhangingElements(probe.rows,
                               [assessmentCell |-> FoundCell(probe.found.assess),
                                descriptionCell |-> FoundCell(probe.found.description),
                                decisionDateCell |-> FoundCell(probe.found.decision)])]
    /\ UNCHANGED << layout, runVars >>

NextOverhang == RemoveOverhangs

SpecOverhang == InitOverhang /\ [][NextOverhang]_vars

\* The cell of the second row at the column has an element with the text.
Holds(pageRows, column, text) ==
    /\ column <= Len(pageRows[2])
    /\ \E e \in 1..Len(pageRows[2][column].elements) :
          pageRows[2][column].elements[e].text = text

\* C25: when the text of an overhanging group is split into the tokens t1,
\* t2, t3, t1 is put back into the cell of the group, t2 into the next cell
\* of the row and t3 into the cell after that; "SMITH   1234567   123/20"
\* ends up in three adjacent cells and only the rightmost of the three
\* elements passes the application number test.
C25_TokensGoToTheNextCells ==
    (probe.stage = "split" /\ probe.overhangs /\ probe.count <= 3) =>
        /\ \A k \in 1..probe.count :
              probe.column + k - 1 <= 3
                  => Holds(probe.result, probe.column + k - 1, TokenText(k))
        /\ (probe.count = 3 /\ probe.column = 1) =>
              /\ ~TestApplicationNumber(layout, TokenText(1))
              /\ ~TestApplicationNumber(layout, TokenText(2))
              /\ TestApplicationNumber(layout, TokenText(3))

\* How many tokens the column of the group takes, by the heading above it.
TokensTaken ==
    IF probe.found.assess = probe.column THEN 3
    ELSE IF probe.found.description = probe.column THEN 2
    ELSE IF probe.found.decision = probe.column THEN 1
    ELSE 0

\* C25 as amended: the heading above the cell of the group decides how many
\* tokens are put back: three under ASSESS, two under DESCRIPTION, one under
\* DECISION.  Of these t1 goes to the cell of the group, t2 to the next cell
\* of the row and t3 to the cell after that, when the row has such a cell,
\* and no other token is put anywhere.  Under ASSESS
\* "SMITH   1234567   123/20" ends up in three adjacent cells; only the
\* rightmost of the three elements has the form digits/digits, and none
\* passes the application number test of this layout, which wants three
\* numbers.
C25_TokensGoByHeading ==
    (probe.stage = "split" /\ probe.overhangs) =>
        /\ \A k \in 1..probe.count : \A c \in 1..3 :
              Holds(probe.result, c, TokenText(k))
                  <=> (k <= TokensTaken /\ c = probe.column + k - 1)
        /\ (probe.count = 3 /\ probe.column = 1 /\ probe.found.assess = 1) =>
              /\ \A k \in 1..3 :
                    /\ Holds(probe.result, k, TokenText(k))
                    /\ ~TestApplicationNumber(layout, TokenText(k))
                    /\ TestTwoSegments(TokenText(k)) <=> k = 3

\* The three tokens of the example were put into three adjacent cells.
C25_Witness ==
    /\ probe.stage = "split" /\ probe.overhangs
    /\ probe.count = 3 /\ probe.column = 1 /\ probe.found.assess = 1
    /\ Holds(probe.result, 1, T_SMITH)
    /\ Holds(probe.result, 2, T_1234567)
    /\ Holds(probe.result, 3, T_123_20)
    /\ ~Holds(probe.rows, 2, T_1234567)

\* The tokens of the texts that the cells of a row hold.
TokensOfRow(row) ==
    UNION { UNION { { SplitTokens(row[c].elements[e].text)[t] :
                         t \in 1..Len(SplitTokens(row[c].elements[e].text)) } :
                    e \in 1..Len(row[c].elements) } :
            c \in 1..Len(row) }

\* C26: removeOverhangingElements loses no text: every token that the cells
\* of a row hold before the call is held by a cell of that row after it,
\* whatever the column of the overhanging element, the number of tokens of
\* the joined text and the headings that were found.
C26_NoTokenIsLost ==
    probe.stage = "split" =>
        \A r \in 1..Len(probe.rows) :
            TokensOfRow(probe.rows[r]) \subseteq TokensOfRow(probe.result[r])

\* Nothing is lost when no element overhangs, or when the group is under
\* ASSESS, has at most three tokens and the row has a cell for each.
C26_NoTokenIsLostUnderAssess ==
    (/\ probe.stage = "split"
     /\ \/ ~probe.overhangs
        \/ /\ probe.found.assess = probe.column
           /\ probe.count <= 3 /\ probe.column + probe.count - 1 <= 3) =>
        \A r \in 1..Len(probe.rows) :
            TokensOfRow(probe.rows[r]) \subseteq TokensOfRow(probe.result[r])

---------------------------------------------------------------------------
(* The row loop of parsePdf and the cells of the page.                     *)

\* A turn of the row loop leaves the elements of every cell of the page as
\* they are.
RowTurnLeavesElements ==
    pc = "row" =>
        /\ Len(cells') = Len(cells)
        /\ \A i \in 1..Len(cells) : cells'[i].elements = cells[i].elements

\* C27: the cells are only read while records are extracted from the rows
\* of a page: no turn of the row loop adds, removes or reorders an element
\* of a cell.
C27_RowLoopOnlyReadsCells == [][RowTurnLeavesElements]_vars

\* The same for the layouts other than that of src/scraper.ts.
C27_RowLoopOnlyReadsCellsElsewhere == [][layout # "ts" => RowTurnLeavesElements]_vars

\* The cells of the row that the row loop may take for the heading cell.
CellsUnder(row, headingCell) ==
    { k \in 1..Len(row) :
         ExceedsPercentage(getHorizontalOverlapPercentage(row[k], headingCell), 90) }

\* The heading cells that were found on the page.
HeadingCellsFound(found) ==
    { found[name] : name \in { field \in DOMAIN found : found[field] # undefined } }

\* C28: in every row of a page at most one cell is more than 90% under a
\* heading cell, whatever the rules of the page are, so that the cell the
\* row loop takes for a heading does not depend on the order of the cells.
C28_OneCellPerHeading ==
    (probe.stage = "rows" /\ ~probe.processed.skipped) =>
        \A r \in 1..Len(probe.processed.rows) :
            \A headingCell \in HeadingCellsFound(probe.processed.headingCells) :
                Cardinality(CellsUnder(probe.processed.rows[r], headingCell)) <= 1

\* The positions of the run inside parsePdf.
ParsingPositions ==
    {"request", "getDocument", "getPage", "parseCells", "parseElements",
     "processPage", "row"}

\* The row was stored by this run for a record of the document.
RowOfDocument(row, pdfUrl) ==
    row.info_url = pdfUrl /\ row.date_scraped = ScrapeDate

\* A step taken inside parsePdf(d), its return and its failure included,
\* leaves the table as it was and the table holds no row of d.
ParsingLeavesStore ==
    pc \in ParsingPositions =>
        /\ database' = database
        /\ \A i \in 1..Len(database') :
              ~RowOfDocument(database'[i], selectedPdfUrls[documentIndex])

\* C29: the records of a document are stored only after parsePdf returned
\* them: while the document is parsed, and when its parsing fails, no row of
\* it is in the table and the rows of the earlier documents are unchanged.
C29_StoredAfterParsing == [][ParsingLeavesStore]_vars

\* parsePdf failed on a page of the second document: the table holds a row
\* of the first document and no row of the second.
C29_Witness ==
    /\ pc = "done" /\ error = "TypeError" /\ documentIndex = 2
    /\ \E i \in 1..Len(database) : RowOfDocument(database[i], selectedPdfUrls[1])
    /\ \A i \in 1..Len(database) : ~RowOfDocument(database[i], selectedPdfUrls[2])

\* The selection main made of the URLs found: the first URL is selected,
\* any other selected URL is one of the URLs after it, and two URLs are
\* selected whenever two or more were found.
RightSelection(found, selected, remaining) ==
    /\ remaining = Tail(found)
    /\ \E k \in 1..Len(selected) :
          /\ selected[k] = found[1]
          /\ \A j \in 1..Len(selected) :
                j # k => selected[j] # found[1] /\ Includes(Tail(found), selected[j])
    /\ Len(selected) = (IF Len(found) >= 2 THEN 2 ELSE 1)

\* The step of main that follows the index page, for some index page.
SelectionStep ==
    pc = "select" =>
        \E links \in IndexPages :
           IF FoundPdfUrls(links, <<>>) = <<>>
           THEN /\ pc' = "done" /\ error' = "none"
                /\ selectedPdfUrls' = <<>> /\ database' = database
           ELSE /\ pc' = "request"
                /\ RightSelection(FoundPdfUrls(links, <<>>), selectedPdfUrls', pdfUrls')

\* C30: main selects the first PDF URL of the index page and, when there are
\* more, exactly one of the others; when the page has no PDF URL it ends
\* without a document requested and without a row stored.
C30_FirstUrlAndOneOther == [][SelectionStep]_vars

\* Three URLs were found; the first of them is the second of the two
\* selected (the selection was reversed).
C30_Witness ==
    /\ pc = "request" /\ documentIndex = 1
    /\ Len(pdfUrls) = 2 /\ Len(selectedPdfUrls) = 2
    /\ Includes(pdfUrls, selectedPdfUrls[1])
    /\ ~Includes(pdfUrls, selectedPdfUrls[2])

\* The index page had no PDF URL: the run is over, nothing was selected.
C30_WitnessOfNone ==
    pc = "done" /\ error = "none" /\ selectedPdfUrls = <<>> /\ documentIndex = 0

====
